---- MODULE Spec2Model ----
(***************************************************************************)
(* discourse-toll: L402 admission middleware, pricing engine, macaroons.   *)
(*                                                                         *)
(* Strings are modelled as sequences of segments: the segments of a string *)
(* are the pieces between its occurrences of the separator " = ", so that  *)
(* String.split(' = ', 2) can be computed.  A JavaScript value carries its *)
(* type tag, so that === and template-literal coercion can be computed.    *)
(***************************************************************************)
EXTENDS Integers, Sequences, FiniteSets, TLC

VARIABLES
    config,           \* PricingEngine.config
    activity,         \* PricingEngine._activity : contextKey -> <<[agent, timestamp]>>
    agentLastAction,  \* PricingEngine._agentLastAction : agentId -> timestamp
    now,              \* Date.now(), in ms
    ret,              \* the last calculate() call and what it returned
    commitCalls,      \* log: <<agentId, contextId>> -> committing calculate() calls made
    pending,          \* the unauthenticated request suspended at an await, if any
    issued,           \* the 402 challenges sent (invoice, macaroon, quote)
    reqCount,         \* requests received
    outcome,          \* the last completed request and what it ended in
    cache,            \* TrustResolver._cache : agentId -> [score, fetchedAt]
    queries,          \* getScore() calls whose promise has not settled
    retries,          \* requests with an L402 header: suspended at the await, or done
    wallet,           \* WalletProvider: its mode and _invoices, the backend, lookups
    resolver,         \* TrustResolver: what getScore asks (customResolver or the relays)
    client            \* createDiscourseClient: _contextSpend and its request() calls

engineVars == <<activity, agentLastAction>>
mwVars == <<pending, issued, reqCount, outcome>>
sideVars == <<retries, wallet, resolver, client>>
ioVars == <<cache, queries, sideVars>>
vars ==
    <<config, activity, agentLastAction, now, ret, commitCalls, pending, issued, reqCount,
      outcome, cache, queries, retries, wallet, resolver, client>>

\* ------------------------------------------------------------ JS values

Null == [t |-> "null", s |-> <<>>]
Str(x) == [t |-> "str", s |-> <<x>>]
Num(n) == [t |-> "num", s |-> <<ToString(n)>>]

\* `${v}` : template-literal coercion to a string
TemplateString(v) == [t |-> "str", s |-> v.s]

Min(a, b) == IF a < b THEN a ELSE b
Max(a, b) == IF a > b THEN a ELSE b

RECURSIVE Pow(_, _)
Pow(b, e) == IF e = 0 THEN 1 ELSE b * Pow(b, e - 1)

\* Math.ceil(n / d) and Math.floor(n / d) for n >= 0, d > 0
Ceil(n, d) == (n + d - 1) \div d
Floor(n, d) == n \div d

\* ------------------------------------------------------------ pricing.cjs

\* DEFAULT_PRICING; progressiveMultiplier 1.5 is the exact binary fraction 3/2
DEFAULT_PRICING ==
    [ baseSats |-> 1, multNum |-> 3, multDen |-> 2, progressiveCap |-> 50,
      trustEnabled |-> TRUE, freeAbove |-> 80, discountAbove |-> 30,
      discountPercent |-> 50,
      cooldownEnabled |-> TRUE, windowMs |-> 60000, bonusPercent |-> 25 ]

EmptyMap == [x \in {} |-> <<>>]

MapGet(m, k, dflt) == IF k \in DOMAIN m THEN m[k] ELSE dflt

\* a count of every record of the context, whoever the agent
CountEveryAgent(list, agentId) == Len(list)

\* contextActivity.filter(a => a.agent === agentId).length
RECURSIVE CountAgent(_, _)
CountAgent(list, agentId) ==
    IF list = <<>> THEN 0
    ELSE (IF Head(list).agent = agentId THEN 1 ELSE 0) + CountAgent(Tail(list), agentId)

\* a count of the agent's records in every context
PriorActionsAnywhere(act, agentId, contextId) ==
    LET Sum[keys \in SUBSET DOMAIN act] ==
            IF keys = {} THEN 0
            ELSE LET k == CHOOSE x \in keys : TRUE
                 IN CountAgent(act[k], agentId) + Sum[keys \ {k}]
    IN Sum[DOMAIN act]

\* agentActionsInContext of calculate
PriorActions(act, agentId, contextId) ==
    CountAgent(MapGet(act, TemplateString(contextId), <<>>), agentId)

\* getActivityCount(agentId, contextId): the map is read with the raw contextId
getActivityCount(act, agentId, contextId) ==
    CountAgent(MapGet(act, contextId, <<>>), agentId)

\* the progression without its cap
ProgressiveCostUncapped(cfg, k) ==
    IF k > 0
    THEN Ceil(cfg.baseSats * Pow(cfg.multNum, k), Pow(cfg.multDen, k))
    ELSE cfg.baseSats

\* a price that does not grow with the actions made
ProgressiveCostFlat(cfg, k) == cfg.baseSats

\* progressiveCost of calculate
ProgressiveCost(cfg, k) ==
    IF k > 0
    THEN Min(Ceil(cfg.baseSats * Pow(cfg.multNum, k), Pow(cfg.multDen, k)),
             cfg.progressiveCap)
    ELSE cfg.baseSats

NoField == -1

\* the trust branch with the free threshold exclusive
TrustStepExclusive(cfg, price, trustScore) ==
    IF cfg.trustEnabled /\ trustScore # NoField
    THEN IF trustScore > cfg.freeAbove
         THEN [price |-> 0, trustDiscount |-> price]
         ELSE IF trustScore >= cfg.discountAbove
              THEN LET discount == (price * cfg.discountPercent) \div 100
                   IN [price |-> Max(1, price - discount), trustDiscount |-> discount]
              ELSE [price |-> price, trustDiscount |-> 0]
    ELSE [price |-> price, trustDiscount |-> NoField]

\* trust branch of calculate: [price, trustDiscount]
TrustStep(cfg, price, trustScore) ==
    IF cfg.trustEnabled /\ trustScore # NoField
    THEN IF trustScore >= cfg.freeAbove
         THEN [price |-> 0, trustDiscount |-> price]
         ELSE IF trustScore >= cfg.discountAbove
              THEN LET discount == Floor(price * cfg.discountPercent, 100)
                   IN [price |-> Max(1, price - discount), trustDiscount |-> discount]
              ELSE [price |-> price, trustDiscount |-> 0]
    ELSE [price |-> price, trustDiscount |-> NoField]

\* the cooldown branch entered at price 0 as well
CooldownStepOnFree(cfg, price, last, agentId, t) ==
    IF cfg.cooldownEnabled
    THEN LET bonus == (price * cfg.bonusPercent) \div 100
         IN IF agentId \in DOMAIN last /\ t - last[agentId] <= cfg.windowMs
            THEN [price |-> price, cooldownBonus |-> 0]
            ELSE [price |-> Max(1, price - bonus), cooldownBonus |-> bonus]
    ELSE [price |-> price, cooldownBonus |-> NoField]

\* the cooldown branch with the bonus due from exactly windowMs on
CooldownStepInclusive(cfg, price, last, agentId, t) ==
    IF cfg.cooldownEnabled /\ price > 0
    THEN LET bonus == (price * cfg.bonusPercent) \div 100
         IN IF agentId \in DOMAIN last /\ t - last[agentId] < cfg.windowMs
            THEN [price |-> price, cooldownBonus |-> 0]
            ELSE [price |-> Max(1, price - bonus), cooldownBonus |-> bonus]
    ELSE [price |-> price, cooldownBonus |-> NoField]

\* cooldown branch of calculate: [price, cooldownBonus]
CooldownStep(cfg, price, last, agentId, t) ==
    IF cfg.cooldownEnabled /\ price > 0
    THEN LET bonus == Floor(price * cfg.bonusPercent, 100)
             lastAction == MapGet(last, agentId, 0)
         IN IF lastAction # 0
            THEN IF t - lastAction > cfg.windowMs
                 THEN [price |-> Max(1, price - bonus), cooldownBonus |-> bonus]
                 ELSE [price |-> price, cooldownBonus |-> 0]
            ELSE [price |-> Max(1, price - bonus), cooldownBonus |-> bonus]
    ELSE [price |-> price, cooldownBonus |-> NoField]

\* a push that works on a copy of the list read before another commit
RecordActivityOverwriting(act, agentId, contextId, t) ==
    LET key == TemplateString(contextId)
        rec == [agent |-> agentId, timestamp |-> t]
    IN IF key \in DOMAIN act
       THEN [act EXCEPT ![key] = <<rec>>]
       ELSE act @@ (key :> <<rec>>)

\* the activity map after the push of calculate
RecordActivity(act, agentId, contextId, t) ==
    LET key == TemplateString(contextId)
        rec == [agent |-> agentId, timestamp |-> t]
    IN IF key \in DOMAIN act
       THEN [act EXCEPT ![key] = Append(@, rec)]
       ELSE act @@ (key :> <<rec>>)

MapSet(m, k, v) == IF k \in DOMAIN m THEN [m EXCEPT ![k] = v] ELSE m @@ (k :> v)

\* a calculate that records whatever dryRun says
RecordsAlways(dryRun) == TRUE

\* whether calculate records the action
Records(dryRun) == ~dryRun

\* calculate({agentId, contextId, trustScore, dryRun}) at time t on engine
\* state (act, last): the result and the engine state it leaves
calculate(cfg, act, last, t, agentId, contextId, trustScore, dryRun) ==
    LET k == PriorActions(act, agentId, contextId)
        progressive == ProgressiveCost(cfg, k)
        tr == TrustStep(cfg, progressive, trustScore)
        cd == CooldownStep(cfg, tr.price, last, agentId, t)
    IN [ sats |-> cd.price,
         breakdown |-> [ base |-> cfg.baseSats, progressive |-> progressive,
                         priorActionsInContext |-> k,
                         trustScore |-> IF cfg.trustEnabled THEN trustScore ELSE NoField,
                         trustDiscount |-> tr.trustDiscount,
                         cooldownBonus |-> cd.cooldownBonus,
                         final |-> cd.price ],
         activity |-> IF Records(dryRun)
                      THEN RecordActivity(act, agentId, contextId, t) ELSE act,
         agentLastAction |-> IF Records(dryRun) THEN MapSet(last, agentId, t) ELSE last ]

\* a reset that clears the activity map only
resetActivityOnly(act, last) == [activity |-> EmptyMap, agentLastAction |-> last]

\* reset(): both maps are cleared
reset(act, last) == [activity |-> EmptyMap, agentLastAction |-> EmptyMap]

\* stats()
RECURSIVE SumLen(_, _)
SumLen(m, keys) ==
    IF keys = {} THEN 0
    ELSE LET k == CHOOSE x \in keys : TRUE
         IN Len(m[k]) + SumLen(m, keys \ {k})

stats(act, last) ==
    [ contexts |-> Cardinality(DOMAIN act),
      agents |-> Cardinality(DOMAIN last),
      totalActions |-> SumLen(act, DOMAIN act) ]


\* ------------------------------------------------------------ macaroon.cjs

Undefined == [t |-> "undef", s |-> <<>>]

\* the string "x = y", which contains the caveat separator
StrEq(x, y) == [t |-> "str", s |-> <<x, y>>]

\* JS truthiness of a value
Truthy(v) == v.t \in {"str", "num"} /\ v.s # <<"">> /\ v # Num(0)

\* a || b
OrElse(a, b) == IF Truthy(a) THEN a ELSE b

\* String.prototype.toUpperCase on the method names in use
UpperWord(w) ==
    CASE w = "post" -> "POST"
      [] w = "get" -> "GET"
      [] OTHER -> w

toUpperCase(v) == [t |-> "str", s |-> [i \in DOMAIN v.s |-> UpperWord(v.s[i])]]

\* keyBuf: a string of 64 hex digits is hex-decoded, any other is taken as
\* UTF-8; the 64-digit secret 41...41 decodes to the 32 bytes of AA...A
HexSecret == "4141414141414141414141414141414141414141414141414141414141414141"
Utf8Twin == "AAAAAAAAAAAAAAAAAAAAAAAAAAAAAAAA"

KeyBytes(key) == IF key = HexSecret THEN Utf8Twin ELSE key

\* hmac(key, data): HMAC-SHA256 as a free constructor; a key is the chain of
\* the data it was derived from, starting from the bytes of the secret
SecretKey(secret) == << <<KeyBytes(secret)>> >>
hmac(key, data) == Append(key, data)

\* a caveat that names its key and drops its value
CaveatStringBare(key, v) == <<key>>

\* `${key} = ${value}`
CaveatString(key, v) == <<key>> \o TemplateString(v).s

\* a signature that covers the id alone
ChainSigUnchained(sig, caveats) == sig

\* the signature chained over the caveats
RECURSIVE ChainSig(_, _)
ChainSig(sig, caveats) ==
    IF caveats = <<>> THEN sig
    ELSE ChainSig(hmac(sig, Head(caveats)), Tail(caveats))

\* createMacaroon(secret, paymentHash, {expiresAt, endpoint, method, contextId, agentId})
createMacaroon(secret, paymentHash, expiresAt, endpoint, method, contextId, agentId) ==
    LET caveatStrings ==
            (IF expiresAt # 0 THEN <<CaveatString("expires_at", Num(expiresAt))>> ELSE <<>>)
         \o (IF Truthy(endpoint) THEN <<CaveatString("endpoint", endpoint)>> ELSE <<>>)
         \o (IF Truthy(method) THEN <<CaveatString("method", method)>> ELSE <<>>)
         \o (IF Truthy(contextId) THEN <<CaveatString("context", contextId)>> ELSE <<>>)
         \o (IF Truthy(agentId) THEN <<CaveatString("agent", agentId)>> ELSE <<>>)
    IN [ id |-> paymentHash,
         caveats |-> caveatStrings,
         iterable |-> TRUE,
         signature |-> ChainSig(hmac(SecretKey(secret), paymentHash), caveatStrings) ]

\* caveat.split(' = ', 2): the first two pieces, the rest is dropped
SplitCaveat(caveat) ==
    [ key |-> caveat[1],
      value |-> IF Len(caveat) >= 2 THEN Str(caveat[2]) ELSE Undefined ]

\* instants the clock is read at by the middleware: a mint, the last instant
\* of its macaroon's life, and the first instant after it
MainTimes == {1000, 601000, 601001}

\* const invoiceTtlSecs = config.invoiceTtlSecs || 600
invoiceTtlSecs == 600

\* the decimal numerals of the expiry times that can be minted
Numerals == [n \in {t \div 1000 + invoiceTtlSecs : t \in MainTimes} |-> Str(ToString(n))]

\* a parse that yields NaN for every value
ParseIntNaN(v) == NoField

\* parseInt(value, 10); NaN as NoField
ParseInt(v) ==
    LET hits == {n \in DOMAIN Numerals : Numerals[n] = v}
    IN IF hits = {} THEN NoField ELSE CHOOSE n \in hits : TRUE

Valid == [valid |-> TRUE, error |-> "", threw |-> FALSE]
Invalid(msg) == [valid |-> FALSE, error |-> msg, threw |-> FALSE]
Threw == [valid |-> FALSE, error |-> "TypeError", threw |-> TRUE]

\* one case of the switch of verifyMacaroon; Valid stands for break
CheckCaveat(caveat, ctx, t) ==
    LET kv == SplitCaveat(caveat)
    IN CASE kv.key = "expires_at" ->
              LET expiresAt == ParseInt(kv.value)
              IN IF expiresAt # NoField /\ t > expiresAt * 1000
                 THEN Invalid("Macaroon expired") ELSE Valid
         [] kv.key = "endpoint" ->
              IF Truthy(ctx.endpoint) /\ ctx.endpoint # kv.value
              THEN Invalid("Endpoint mismatch") ELSE Valid
         [] kv.key = "method" ->
              IF Truthy(ctx.method)
              THEN IF kv.value = Undefined THEN Threw
                   ELSE IF toUpperCase(ctx.method) # toUpperCase(kv.value)
                        THEN Invalid("Method mismatch") ELSE Valid
              ELSE Valid
         [] kv.key = "context" ->
              IF Truthy(ctx.contextId) /\ ctx.contextId # kv.value
              THEN Invalid("Context mismatch") ELSE Valid
         [] kv.key = "agent" ->
              IF Truthy(ctx.agentId) /\ ctx.agentId # kv.value
              THEN Invalid("Agent mismatch") ELSE Valid
         [] OTHER -> Valid

\* the caveat loop of verifyMacaroon: the first return or throw
RECURSIVE CheckCaveats(_, _, _)
CheckCaveats(caveats, ctx, t) ==
    IF caveats = <<>> THEN Valid
    ELSE LET r == CheckCaveat(Head(caveats), ctx, t)
         IN IF r.valid THEN CheckCaveats(Tail(caveats), ctx, t) ELSE r

\* a verification that validates the caveats before it compares the signature
verifyMacaroonCaveatsFirst(secret, macaroon, ctx, t) ==
    IF ~macaroon.iterable THEN Threw
    ELSE IF ~CheckCaveats(macaroon.caveats, ctx, t).valid
         THEN CheckCaveats(macaroon.caveats, ctx, t)
         ELSE IF ChainSig(hmac(SecretKey(secret), macaroon.id), macaroon.caveats)
                    # macaroon.signature
              THEN Invalid("Invalid signature")
              ELSE Valid

\* verifyMacaroon(secret, macaroon, context) at time t; iterating a caveats
\* field that is no array throws
verifyMacaroon(secret, macaroon, ctx, t) ==
    IF ~macaroon.iterable THEN Threw
    ELSE IF ChainSig(hmac(SecretKey(secret), macaroon.id), macaroon.caveats)
               # macaroon.signature
         THEN Invalid("Invalid signature")
         ELSE CheckCaveats(macaroon.caveats, ctx, t)

\* encodeMacaroon / decodeMacaroon: base64 of JSON; decoding anything that is
\* not base64 of JSON gives null
encodeMacaroon(macaroon) == [json |-> TRUE, value |-> macaroon]

NoMacaroon == [id |-> <<>>, caveats |-> <<>>, iterable |-> FALSE, signature |-> <<>>]
Garbage == [json |-> FALSE, value |-> NoMacaroon]

decodeMacaroon(encoded) ==
    IF encoded.json THEN [null |-> FALSE, macaroon |-> encoded.value]
    ELSE [null |-> TRUE, macaroon |-> NoMacaroon]

\* ------------------------------------------------------------ wallet

\* SHA-256 of a preimage, as a free constructor
SHA256(preimage) == <<"sha256", preimage>>

\* WalletProvider.verifyPreimage(preimage, paymentHash)
verifyPreimage(preimage, paymentHash) == SHA256(preimage) = paymentHash

\* ------------------------------------------------------------ middleware.cjs

\* config.secret
ServerSecret == "server-secret"

\* the preimage of the n-th invoice the wallet mints, and its payment hash
InvoicePreimage(n) == ToString(n)

\* an agentId taken as extracted, with no fallback
AgentOfExtracted(req) == req.agentField

\* agentId: _extract(req, opts.agentFrom) || req.headers['x-agent-id'] || 'anonymous'
AgentOf(req) == OrElse(req.agentField, Str("anonymous"))

\* contextId: _extract(req, opts.contextFrom) || req.params.threadId
\*            || req.params.postId || 'default'
ContextOf(req) == OrElse(req.contextField, Str("default"))

\* the context handed to verifyMacaroon
VerifyContext(req) ==
    [ endpoint |-> req.url, method |-> req.method,
      contextId |-> ContextOf(req), agentId |-> AgentOf(req) ]

NoRequest ==
    [url |-> Undefined, method |-> Undefined, agentField |-> Undefined,
     contextField |-> Undefined]

NoCredential == [parts |-> 0, token |-> Garbage, preimage |-> ""]

NoPending ==
    [ stage |-> "none", req |-> NoRequest, race |-> "none", sats |-> 0,
      progressive |-> 0, prior |-> 0 ]

\* what a request ended in: status 0 stands for no response sent by the
\* middleware; next counts the calls of next()
Outcome(seq, kind, req, cred, t, status, next, paid, free, tollError, detail, committed, prior) ==
    [ seq |-> seq, kind |-> kind, req |-> req, cred |-> cred, at |-> t,
      status |-> status, next |-> next, tollPaid |-> paid, tollFree |-> free,
      tollError |-> tollError, detail |-> detail, committed |-> committed,
      prior |-> prior ]

NoOutcome ==
    Outcome(0, "none", NoRequest, NoCredential, 0, 0, 0, FALSE, FALSE, FALSE, "", 0, 0)

\* _verifyL402(authHeader, req, opts) at time t on engine state (act, lastAct):
\* the result, and the engine state it leaves
verifyL402(cfg, act, lastAct, t, cred, req) ==
    LET decoded == decodeMacaroon(cred.token)
        macaroon == decoded.macaroon
        verification == verifyMacaroon(ServerSecret, macaroon, VerifyContext(req), t)
        commit == calculate(cfg, act, lastAct, t, AgentOf(req), ContextOf(req),
                            NoField, FALSE)
        Fail(r) == [ result |-> r, activity |-> act, agentLastAction |-> lastAct,
                     prior |-> 0 ]
    IN IF cred.parts # 2 THEN Fail(Invalid("Invalid L402 format"))
       ELSE IF decoded.null THEN Fail(Invalid("Invalid macaroon encoding"))
       ELSE IF ~verifyPreimage(cred.preimage, macaroon.id)
            THEN Fail(Invalid("Preimage does not match payment hash"))
       ELSE IF ~verification.valid THEN Fail(verification)
       ELSE [ result |-> Valid, activity |-> commit.activity,
              agentLastAction |-> commit.agentLastAction,
              prior |-> commit.breakdown.priorActionsInContext ]

\* a challenge quote that commits
QuoteCommits == FALSE

\* const priceOpts = { agentId, contextId, trustScore, dryRun: true }
QuoteDryRun == TRUE

\* the wallet of the middleware model, whose invoices are the challenges
\* no client of createDiscourseClient exists in the server's process
NoClient ==
    [ maxSats |-> 100, maxSatsPerContext |-> 500, contextSpend |-> EmptyMap,
      calls |-> {}, paid |-> EmptyMap, unproven |-> EmptyMap, started |-> 0 ]

NoWallet ==
    [ mode |-> "custom", invoices |-> EmptyMap, settled |-> {}, minted |-> 0,
      lookups |-> {}, calls |-> 0, paidSeen |-> EmptyMap,
      returned |-> [id |-> 0, hash |-> <<>>, afterPaid |-> FALSE, threw |-> FALSE,
                    paid |-> FALSE, preimage |-> "", flipped |-> FALSE] ]

InitMiddleware ==
    /\ pending = NoPending
    /\ issued = {}
    /\ reqCount = 0
    /\ outcome = NoOutcome
    /\ cache = EmptyMap
    /\ queries = {}
    /\ retries = {}
    /\ wallet = NoWallet
    /\ resolver = "nostr"
    /\ client = NoClient

\* a request with an L402 Authorization header: lines 64-76, and the catch of
\* lines 137-142 when _verifyL402 throws
AuthRequest(req, cred) ==
    LET v == verifyL402(config, activity, agentLastAction, now, cred, req)
        r == v.result
        committed == stats(v.activity, v.agentLastAction).totalActions
                     - stats(activity, agentLastAction).totalActions
    IN /\ reqCount' = reqCount + 1
       /\ activity' = v.activity
       /\ agentLastAction' = v.agentLastAction
       /\ outcome' = IF r.threw
                  THEN Outcome(outcome.seq + 1, "auth", req, cred, now, 0, 1, FALSE, FALSE,
                               TRUE, r.error, committed, v.prior)
                  ELSE IF r.valid
                  THEN Outcome(outcome.seq + 1, "auth", req, cred, now, 0, 1, TRUE, FALSE,
                               FALSE, "", committed, v.prior)
                  ELSE Outcome(outcome.seq + 1, "auth", req, cred, now, 401, 0, FALSE, FALSE,
                               FALSE, r.error, committed, v.prior)
       /\ UNCHANGED <<config, now, ret, commitCalls, pending, issued, ioVars>>

\* a request without L402 Authorization arrives: ids extracted, trust.getScore
\* called and awaited (lines 79-89)
Arrives(req) ==
    /\ pending = NoPending
    /\ reqCount' = reqCount + 1
    /\ pending' = [NoPending EXCEPT !.stage = "trust", !.req = req]
    /\ UNCHANGED <<config, activity, agentLastAction, now, ret, commitCalls, issued, outcome,
                   sideVars>>

\* the arrival, with the resolver's own state left out of account
Arrive(req) == Arrives(req) /\ UNCHANGED ioVars

\* how the race of trust.getScore against the 3000 ms timer ended: an answer
\* (a score or null), a throw or rejection, or the timer
TrustRace(how, score) == [how |-> how, score |-> score]

\* a middleware that takes a failed resolver for full trust
RaceScoreTrusting(race) == IF race.how = "answer" THEN race.score ELSE 100

\* trustScore after lines 82-89: the answer; null (NoField) when the race
\* threw, which the empty catch swallows, or when the timer resolved null
RaceScore(race) == IF race.how = "answer" THEN race.score ELSE NoField

\* a middleware that waives a price of one sat
FreePassUpToOne(sats) == sats <= 1

\* if (sats === 0)
FreePass(sats) == sats = 0

\* lines 91-105 once the race is over: the quote, then the free pass or the
\* call of wallet.createInvoice
QuoteStep(race) ==
    LET req == pending.req
        q == calculate(config, activity, agentLastAction, now, AgentOf(req),
                       ContextOf(req), RaceScore(race), QuoteDryRun)
    IN [ activity |-> q.activity,
         agentLastAction |-> q.agentLastAction,
         pending |-> IF FreePass(q.sats) THEN NoPending
                     ELSE [ stage |-> "invoice", req |-> req, race |-> race.how,
                            sats |-> q.sats,
                            progressive |-> q.breakdown.progressive,
                            prior |-> q.breakdown.priorActionsInContext ],
         outcome |-> IF FreePass(q.sats)
                     THEN Outcome(outcome.seq + 1, "unauth", req, NoCredential, now, 0, 1,
                                  TRUE, TRUE, FALSE, "", 0, 0)
                     ELSE outcome ]

RaceDecided(race) ==
    /\ pending.stage = "trust"
    /\ activity' = QuoteStep(race).activity
    /\ agentLastAction' = QuoteStep(race).agentLastAction
    /\ pending' = QuoteStep(race).pending
    /\ outcome' = QuoteStep(race).outcome
    /\ UNCHANGED <<config, now, ret, commitCalls, issued, reqCount, sideVars>>

TrustResolved(race) == RaceDecided(race) /\ UNCHANGED ioVars

\* the 402 challenge: what the body and the WWW-Authenticate header carry
Challenge(n, req, sats, progressive, prior, t) ==
    LET paymentHash == SHA256(InvoicePreimage(n))
        expiresAt == Floor(t, 1000) + invoiceTtlSecs
    IN [ paymentHash |-> paymentHash,
         preimage |-> InvoicePreimage(n),
         amountSats |-> sats,
         progressive |-> progressive,
         prior |-> prior,
         expiresAt |-> expiresAt,
         req |-> req,
         macaroon |-> encodeMacaroon(
             createMacaroon(ServerSecret, paymentHash, expiresAt, req.url, req.method,
                            ContextOf(req), AgentOf(req))) ]

\* wallet.createInvoice resolved: macaroon minted, 402 sent (lines 105-136)
InvoiceCreated ==
    /\ pending.stage = "invoice"
    /\ issued' = issued \cup
          {Challenge(Cardinality(issued) + 1, pending.req, pending.sats,
                     pending.progressive, pending.prior, now)}
    /\ outcome' = Outcome(outcome.seq + 1, "unauth", pending.req, NoCredential, now, 402, 0,
                       FALSE, FALSE, FALSE, "", 0, 0)
    /\ pending' = NoPending
    /\ UNCHANGED <<config, activity, agentLastAction, now, ret, commitCalls, reqCount, ioVars>>

\* what wallet.createInvoice threw or rejected with: an Error, a value with no
\* message property, or null/undefined
Thrown == {"Error", "string", "null"}

\* wallet.createInvoice rejected: the catch of lines 137-142 reads err.message
\* twice; on null or undefined that read throws and the middleware's promise
\* rejects with neither a response nor a call of next()
InvoiceRejected(thrown) ==
    /\ pending.stage = "invoice"
    /\ outcome' =
          CASE thrown = "Error" ->
                  Outcome(outcome.seq + 1, "unauth", pending.req, NoCredential, now, 0, 1,
                          FALSE, FALSE, TRUE, "wallet error", 0, 0)
            [] thrown = "string" ->
                  Outcome(outcome.seq + 1, "unauth", pending.req, NoCredential, now, 0, 1,
                          FALSE, FALSE, FALSE, "", 0, 0)
            [] OTHER ->
                  Outcome(outcome.seq + 1, "unauth", pending.req, NoCredential, now, 0, 0,
                          FALSE, FALSE, FALSE, "TypeError", 0, 0)
    /\ pending' = NoPending
    /\ UNCHANGED <<config, activity, agentLastAction, now, ret, commitCalls, issued, reqCount, ioVars>>

\* the rejection with an Error
InvoiceFailed == InvoiceRejected("Error")

\* ------------------------------------------------------------ inputs

MaxCommits == 2

Agents == {Str("a1"), Str("a2")}
Contexts == {Str("t1"), Str("t2")}
TrustScores == {NoField, 10, 30, 80}

\* instants the clock is read at: within and past the cooldown window
PricingTimes == {1000, 61000, 61001}

\* new PricingEngine({baseSats, progressiveCap, progressiveMultiplier: n/d,
\*                    trustDiscount: {enabled}, cooldown: {enabled}})
EngineConfig(b, c, n, d, te, ce) ==
    [DEFAULT_PRICING EXCEPT !.baseSats = b, !.progressiveCap = c,
                            !.multNum = n, !.multDen = d,
                            !.trustEnabled = te, !.cooldownEnabled = ce]

PricingConfigs ==
    { DEFAULT_PRICING,
      EngineConfig(1, 50, 3, 2, TRUE, FALSE),
      EngineConfig(1, 50, 3, 2, FALSE, FALSE),
      EngineConfig(10, 50, 3, 2, TRUE, TRUE),
      EngineConfig(10, 50, 0, 1, FALSE, TRUE),
      EngineConfig(10, 12, 2, 1, TRUE, FALSE),
      EngineConfig(60, 50, 3, 2, TRUE, FALSE),
      EngineConfig(0, 50, 3, 2, TRUE, TRUE) }

NoCall ==
    [ op |-> "none", agentId |-> Null, contextId |-> Null, trustScore |-> NoField,
      dryRun |-> TRUE, sats |-> NoField, progressive |-> NoField, prior |-> NoField ]

CallRecord(a, c, score, dry, r) ==
    [ op |-> "calculate", agentId |-> a, contextId |-> c, trustScore |-> score,
      dryRun |-> dry, sats |-> r.sats, progressive |-> r.breakdown.progressive,
      prior |-> r.breakdown.priorActionsInContext ]

\* ------------------------------------------------------------ engine actions

\* new PricingEngine(opts)
InitEngine ==
    /\ activity = EmptyMap
    /\ agentLastAction = EmptyMap
    /\ ret = NoCall
    /\ commitCalls = EmptyMap

\* engine.calculate({agentId, contextId, trustScore, dryRun})
Calculate(a, c, score, dry) ==
    LET r == calculate(config, activity, agentLastAction, now, a, c, score, dry)
    IN /\ activity' = r.activity
       /\ agentLastAction' = r.agentLastAction
       /\ ret' = CallRecord(a, c, score, dry, r)
       /\ commitCalls' = IF dry THEN commitCalls
                         ELSE MapSet(commitCalls, <<a, c>>,
                                     MapGet(commitCalls, <<a, c>>, 0) + 1)
       /\ UNCHANGED <<config, now, mwVars, ioVars>>

\* the clock advances
Tick(t) ==
    /\ t > now
    /\ now' = t
    /\ UNCHANGED <<config, activity, agentLastAction, ret, commitCalls, mwVars, ioVars>>

\* ------------------------------------------------------------ SpecPricing

InitPricing ==
    /\ config \in PricingConfigs
    /\ now = 1000
    /\ InitEngine
    /\ InitMiddleware

CommitCall ==
    /\ stats(activity, agentLastAction).totalActions < MaxCommits
    /\ \E a \in Agents, c \in Contexts, score \in TrustScores :
          Calculate(a, c, score, FALSE)

DryRunCall ==
    \E a \in Agents, c \in Contexts, score \in TrustScores :
       Calculate(a, c, score, TRUE)

ClockTick == \E t \in PricingTimes : Tick(t)

NextPricing == CommitCall \/ DryRunCall \/ ClockTick

SpecPricing == InitPricing /\ [][NextPricing]_vars


\* ------------------------------------------------------------ SpecQuotes

\* engines whose quotes are compared across agents, contexts and instants:
\* trust discounting and cooldown each enabled and disabled
QuoteConfigs ==
    { DEFAULT_PRICING,
      EngineConfig(10, 50, 3, 2, TRUE, TRUE),
      EngineConfig(10, 50, 3, 2, FALSE, TRUE),
      EngineConfig(10, 12, 2, 1, TRUE, FALSE) }

InitQuotes ==
    /\ config \in QuoteConfigs
    /\ now = 1000
    /\ InitEngine
    /\ InitMiddleware

SpecQuotes == InitQuotes /\ [][NextPricing]_vars


\* ------------------------------------------------------------ SpecProgression

MaxProgression == 10

\* base=1, multiplier=1.5, cap=50, cooldown disabled, trust disabled
ScenarioConfig == EngineConfig(1, 50, 3, 2, FALSE, FALSE)

InitProgression ==
    /\ config = ScenarioConfig
    /\ now = 1000
    /\ InitEngine
    /\ InitMiddleware

ProgressionCommit ==
    /\ stats(activity, agentLastAction).totalActions < MaxProgression
    /\ Calculate(Str("a"), Str("t"), NoField, FALSE)

ProgressionDryRun == Calculate(Str("a"), Str("t"), NoField, TRUE)

NextProgression == ProgressionCommit \/ ProgressionDryRun \/ ClockTick

SpecProgression == InitProgression /\ [][NextProgression]_vars

\* ------------------------------------------------------------ pricing claims

IsCall == ret.op = "calculate"
IsCommit == IsCall /\ ~ret.dryRun

\* the number of committing calls for the pair of the last call, before it
CallIndex == MapGet(commitCalls, <<ret.agentId, ret.contextId>>, 0) - 1

\* C6: with no trust score and cooldown disabled, the (k+1)-th committing
\* calculate for (a,c) returns min(ceil(baseSats * multiplier^k), progressiveCap),
\* for every configuration
C6_ProgressiveFormula ==
    (IsCommit /\ ret.trustScore = NoField /\ ~config.cooldownEnabled) =>
        ret.sats = Min(Ceil(config.baseSats * Pow(config.multNum, CallIndex),
                            Pow(config.multDen, CallIndex)),
                       config.progressiveCap)

\* C7 as stated: for every configuration, trustScore >= freeAbove gives
\* sats = 0 and every other call gives sats >= 1
C7_FreeOnlyAboveThreshold ==
    IsCall =>
        IF ret.trustScore # NoField /\ ret.trustScore >= config.freeAbove
        THEN ret.sats = 0
        ELSE ret.sats >= 1

\* C7 amended: when baseSats >= 1, the multiplier is positive and
\* progressiveCap >= 1, sats = 0 exactly when trust discounting is enabled and a
\* numeric trustScore >= freeAbove is given; every other call returns sats >= 1
C7_FreeOnlyAboveThresholdWhenEnabled ==
    (IsCall /\ config.baseSats >= 1 /\ config.multNum > 0
            /\ config.progressiveCap >= 1) =>
        IF config.trustEnabled /\ ret.trustScore # NoField
           /\ ret.trustScore >= config.freeAbove
        THEN ret.sats = 0
        ELSE ret.sats >= 1

C7_Witness ==
    /\ IsCall /\ config.baseSats >= 1 /\ config.trustEnabled /\ config.cooldownEnabled
    /\ ret.trustScore = config.freeAbove
    /\ ret.prior >= 1
    /\ ret.sats = 0

\* C8: every result of calculate has breakdown.progressive <= progressiveCap
\* and sats <= progressiveCap, for every number of prior actions
C8_CapIsCeiling ==
    IsCall => /\ ret.progressive <= config.progressiveCap
              /\ ret.sats <= config.progressiveCap

\* C9 as stated: the ten committing calls return [1,2,3,4,6,8,12,17,26,39]
\* and a dry run after them returns 50
StatedProgression == <<1, 2, 3, 4, 6, 8, 12, 17, 26, 39>>
CodeProgression == <<1, 2, 3, 4, 6, 8, 12, 18, 26, 39>>

ProgressionIs(seq) ==
    /\ (IsCommit /\ CallIndex < Len(seq)) => ret.sats = seq[CallIndex + 1]
    /\ (IsCall /\ ret.dryRun /\ ret.prior = Len(seq)) => ret.sats = 50

Quote(act, last, a, c, score) ==
    LET r == calculate(config, act, last, now, a, c, score, TRUE)
    IN <<r.sats, r.breakdown>>

ObservablyEqual(act1, last1, act2, last2) ==
    /\ stats(act1, last1) = stats(act2, last2)
    /\ \A a \in Agents, c \in Contexts :
          /\ getActivityCount(act1, a, c) = getActivityCount(act2, a, c)
          /\ \A score \in TrustScores :
                Quote(act1, last1, a, c, score) = Quote(act2, last2, a, c, score)

\* the step is a calculate call, which ret' describes: the clock is not
\* advanced, and the call log or the activity changes
CalculateStep ==
    /\ ret'.op = "calculate"
    /\ now' = now
    /\ ret' # ret \/ activity' # activity

\* the step is a dry-run calculate call
DryRunStep == CalculateStep /\ ret'.dryRun

\* (an engine state left as it was is observably equal to itself; otherwise
\* the observations are compared)
C10_DryRunChangesNothing ==
    [][DryRunStep =>
          \/ <<activity', agentLastAction'>> = <<activity, agentLastAction>>
          \/ ObservablyEqual(activity, agentLastAction,
                             activity', agentLastAction')]_vars

C10_Witness ==
    /\ IsCall /\ ret.dryRun
    /\ stats(activity, agentLastAction).totalActions >= 1
    /\ getActivityCount(activity, ret.agentId, ret.contextId) >= 1


\* the steps as specified, from the progressive price on: trust, then cooldown
SpecifiedAfterTrust(cfg, price, score) ==
    IF cfg.trustEnabled /\ score # NoField
    THEN IF score >= cfg.freeAbove THEN 0
         ELSE IF score >= cfg.discountAbove
              THEN Max(1, price - ((price * cfg.discountPercent) \div 100))
              ELSE price
    ELSE price

BonusDue(cfg, last, agentId, t) ==
    agentId \notin DOMAIN last \/ t - last[agentId] > cfg.windowMs

SpecifiedSats(cfg, price, score, last, agentId, t) ==
    LET p == SpecifiedAfterTrust(cfg, price, score)
    IN IF cfg.cooldownEnabled /\ p > 0 /\ BonusDue(cfg, last, agentId, t)
       THEN Max(1, p - ((p * cfg.bonusPercent) \div 100))
       ELSE p

\* C11: every calculate returns the sats of the specified steps in their
\* order: progressive price, then the trust branch (skipped when the score is
\* absent or trust is disabled), then the cooldown bonus on the discounted
\* price, only when that price is > 0
C11_StepsInOrder ==
    [][CalculateStep =>
          ret'.sats = SpecifiedSats(config, ret'.progressive, ret'.trustScore,
                                    agentLastAction, ret'.agentId, now)]_vars

C11_Witness ==
    /\ IsCall /\ config.trustEnabled /\ config.cooldownEnabled
    /\ ret.trustScore = 30 /\ ret.progressive = 10
    /\ ret.sats = 4


\* breakdown.priorActionsInContext and breakdown.progressive quoted for (a,c)
ProgressiveQuote(act, a, c) ==
    LET k == PriorActions(act, a, c)
    IN <<k, ProgressiveCost(config, k)>>

\* C12: the prior-action count quoted for (a,c) is the number of commits made
\* for that agent in that context, and the progressive price is the price of
\* that number: commits of another agent in c, or of a in another context, do
\* not enter them
C12_ProgressiveIsPerPair ==
    \A a \in Agents, c \in Contexts :
       ProgressiveQuote(activity, a, c)
          = << MapGet(commitCalls, <<a, c>>, 0),
               ProgressiveCost(config, MapGet(commitCalls, <<a, c>>, 0)) >>

C12_Witness ==
    /\ IsCommit /\ ret.prior = 0
    /\ stats(activity, agentLastAction).totalActions = 2
    /\ stats(activity, agentLastAction).contexts = 1
    /\ stats(activity, agentLastAction).agents = 2

\* the engine had agent a never committed in context c1: a's records of c1
\* are absent, and a's last action is the latest of a's other records
RECURSIVE DropAgent(_, _)
DropAgent(list, a) ==
    IF list = <<>> THEN <<>>
    ELSE IF Head(list).agent = a THEN DropAgent(Tail(list), a)
         ELSE <<Head(list)>> \o DropAgent(Tail(list), a)

ActivityWithout(act, a, c1) ==
    [key \in DOMAIN act |->
        IF key = TemplateString(c1) THEN DropAgent(act[key], a) ELSE act[key]]

LastActionWithout(act, last, a, c1) ==
    LET rest == ActivityWithout(act, a, c1)
        times == UNION { {rest[key][i].timestamp :
                             i \in {j \in DOMAIN rest[key] : rest[key][j].agent = a}} :
                         key \in DOMAIN rest }
    IN IF times = {}
       THEN [x \in DOMAIN last \ {a} |-> last[x]]
       ELSE MapSet(last, a, CHOOSE t \in times : \A u \in times : u <= t)

QuoteWith(act, last, a, c, score) ==
    calculate(config, act, last, now, a, c, score, TRUE)

QuoteWithout(a, c1, c2, score) ==
    QuoteWith(ActivityWithout(activity, a, c1),
              LastActionWithout(activity, agentLastAction, a, c1), a, c2, score)

\* C13 as stated: the sats quoted for (a, c2) is the same whether or not a
\* has committed actions in another context c1, for every trust score and
\* configuration
C13_ContextsIndependent ==
    \A a \in Agents, c1 \in Contexts, c2 \in Contexts, score \in TrustScores :
       c1 # c2 =>
          QuoteWith(activity, agentLastAction, a, c2, score).sats
             = QuoteWithout(a, c1, c2, score).sats

\* C13 amended: the prior-action count, the progressive price and the trust
\* discount quoted for (a, c2) are the same whether or not a has committed in
\* c1, and so is sats when cooldown is disabled; with cooldown enabled the
\* quote differs at most by the cooldown bonus it loses within windowMs of a
\* commit of a in c1
C13_ContextsIndependentBeforeCooldown ==
    \A a \in Agents, c1 \in Contexts, c2 \in Contexts, score \in TrustScores :
       c1 # c2 =>
          LET with == QuoteWith(activity, agentLastAction, a, c2, score)
              without == QuoteWithout(a, c1, c2, score)
          IN /\ with.breakdown.priorActionsInContext
                   = without.breakdown.priorActionsInContext
             /\ with.breakdown.progressive = without.breakdown.progressive
             /\ with.breakdown.trustDiscount = without.breakdown.trustDiscount
             /\ ~config.cooldownEnabled => with.sats = without.sats
             /\ \/ with.sats = without.sats
                \/ /\ with.breakdown.cooldownBonus = 0
                   /\ without.breakdown.cooldownBonus > 0
                   /\ without.sats = Max(1, with.sats - without.breakdown.cooldownBonus)

C13_Witness ==
    /\ IsCall /\ ret.dryRun /\ ret.prior = 0
    /\ \E c1 \in Contexts \ {ret.contextId} :
          /\ getActivityCount(activity, ret.agentId, c1) >= 1
          /\ QuoteWith(activity, agentLastAction, ret.agentId, ret.contextId,
                       ret.trustScore).sats
                # QuoteWithout(ret.agentId, c1, ret.contextId, ret.trustScore).sats

\* the instants of the agent's committed actions, read off the activity records
CommitTimes(act, a) ==
    UNION { {act[key][i].timestamp :
                i \in {j \in DOMAIN act[key] : act[key][j].agent = a}} :
            key \in DOMAIN act }

\* more than windowMs has elapsed since every commit of the agent
WindowPassed(cfg, act, a, t) ==
    \A u \in CommitTimes(act, a) : t - u > cfg.windowMs

\* C14: with cooldown enabled, a quote of a price > 0 for agent a gets the
\* cooldown bonus exactly when a has committed nothing or more than windowMs
\* has elapsed since a's last commit; dry-run quotes do not count as commits
C14_BonusOutsideWindow ==
    [][(CalculateStep /\ config.cooldownEnabled
          /\ SpecifiedAfterTrust(config, ret'.progressive, ret'.trustScore) > 0) =>
          LET price == SpecifiedAfterTrust(config, ret'.progressive, ret'.trustScore)
          IN ret'.sats = IF WindowPassed(config, activity, ret'.agentId, now)
                         THEN Max(1, price - ((price * config.bonusPercent) \div 100))
                         ELSE price]_vars

C14_Witness ==
    /\ IsCall /\ config.cooldownEnabled /\ config.baseSats = 10
    /\ ret.trustScore = NoField
    /\ CommitTimes(activity, ret.agentId) = {1000}
    /\ now = 61001
    /\ ret.sats < ret.progressive

\* ------------------------------------------------------------ Spec

MaxRequests == 3
MaxChallenges == 1

Request(url, method, agentField, contextField) ==
    [ url |-> Str(url), method |-> Str(method), agentField |-> agentField,
      contextField |-> contextField ]

\* toll({contextFrom: 'body.threadId', agentFrom: 'body.author'}) on two routes:
\* one request, and the requests that differ from it in one part
MainRequests ==
    { Request("/comments", "POST", Str("alice"), Str("t1")),
      Request("/other", "POST", Str("alice"), Str("t1")),
      Request("/comments", "GET", Str("alice"), Str("t1")),
      Request("/comments", "POST", Str("alice"), Str("t2")),
      Request("/comments", "POST", StrEq("alice", "x"), Str("t1")) }

MainTrustScores == {NoField, 30, 80}

\* the credential of a client that paid the challenge's invoice
PaidCredential(ch) == [parts |-> 2, token |-> ch.macaroon, preimage |-> ch.preimage]

\* a token whose JSON has an id and no caveats array, for a preimage of the
\* sender's choice
BareToken(preimage) ==
    encodeMacaroon([NoMacaroon EXCEPT !.id = SHA256(preimage)])

\* a macaroon signed with another secret
ForeignToken(preimage, req) ==
    encodeMacaroon(createMacaroon("other-secret", SHA256(preimage), 0, req.url,
                                  req.method, ContextOf(req), AgentOf(req)))

\* the Authorization headers a client can send
Credentials(req) ==
    { PaidCredential(ch) : ch \in issued }
    \cup { [PaidCredential(ch) EXCEPT !.preimage = "x"] : ch \in issued }
    \cup { [parts |-> 1, token |-> Garbage, preimage |-> ""],
           [parts |-> 2, token |-> Garbage, preimage |-> "x"],
           [parts |-> 2, token |-> BareToken("x"), preimage |-> "x"],
           [parts |-> 2, token |-> ForeignToken("x", req), preimage |-> "x"] }

Init ==
    /\ config = DEFAULT_PRICING
    /\ now = 1000
    /\ InitEngine
    /\ InitMiddleware

Retry ==
    /\ reqCount < MaxRequests
    /\ \E req \in MainRequests : \E cred \in Credentials(req) : AuthRequest(req, cred)

Unauthenticated ==
    /\ reqCount < MaxRequests
    /\ \E req \in MainRequests : Arrive(req)

\* the resolver answers in time: a score, or null for an agent it does not know
MainTrustRaces == {TrustRace("answer", score) : score \in MainTrustScores}

Trust == \E race \in MainTrustRaces : TrustResolved(race)

Mint == Cardinality(issued) < MaxChallenges /\ InvoiceCreated

MainTick == \E t \in MainTimes : Tick(t)

Next == Retry \/ Unauthenticated \/ Trust \/ Mint \/ InvoiceFailed \/ MainTick

Spec == Init /\ [][Next]_vars


\* ------------------------------------------------------------ admission claims

IsRetry == outcome.kind = "auth"

\* the presented token decodes, its preimage hashes to its id, and
\* verifyMacaroon returns valid for the request, at the time of the request
PassesPreimageAndMacaroon(o) ==
    LET decoded == decodeMacaroon(o.cred.token)
    IN /\ ~decoded.null
       /\ verifyPreimage(o.cred.preimage, decoded.macaroon.id)
       /\ verifyMacaroon(ServerSecret, decoded.macaroon, VerifyContext(o.req), o.at).valid

CredentialPasses(o) == o.cred.parts = 2 /\ PassesPreimageAndMacaroon(o)

\* C1: a request with an L402 header reaches the handler only if the header
\* parses, the macaroon decodes, the preimage hashes to its id and verifyMacaroon
\* returns valid; every other such request gets 401 and the handler is not invoked
C1_OnlyVerifiedCredentialsAdmitted ==
    IsRetry =>
        IF CredentialPasses(outcome)
        THEN outcome.next = 1
        ELSE outcome.status = 401 /\ outcome.next = 0

\* C2: the engine's activity records and last-action index change only in a
\* request with an L402 header that passed verifyPreimage and verifyMacaroon;
\* a request ending in 402, a free pass, a fail-open pass or 401 leaves them
EngineChanged == <<activity, agentLastAction>>' # <<activity, agentLastAction>>

RequestEnded == outcome'.seq # outcome.seq

C2_CommitOnlyOnVerifiedRetry ==
    [][ /\ EngineChanged =>
             /\ RequestEnded /\ outcome'.kind = "auth"
             /\ PassesPreimageAndMacaroon(outcome')
        /\ ( /\ RequestEnded
             /\ \/ outcome'.status \in {401, 402}
                \/ outcome'.tollFree
                \/ outcome'.tollError ) =>
             /\ ~EngineChanged
             /\ stats(activity', agentLastAction') = stats(activity, agentLastAction)
      ]_vars

C2_Witness ==
    /\ outcome.status = 401
    /\ stats(activity, agentLastAction).totalActions = 1
    /\ issued # {}

\* the challenge whose credential the request presented, with its own preimage
PaidFor(o) == {ch \in issued : o.cred = PaidCredential(ch)}

\* C3: the challenged request retried before expires_at with the challenge's
\* macaroon and preimage reaches the handler once with tollPaid, and commits
\* one activity record
C3_PaidRetryAdmitted ==
    \A ch \in PaidFor(outcome) :
        (IsRetry /\ outcome.req = ch.req /\ outcome.at <= ch.expiresAt * 1000) =>
            /\ outcome.next = 1
            /\ outcome.tollPaid
            /\ outcome.committed = 1

\* the two requests differ in endpoint, method (case-insensitively), context
\* or agent
Differs(r1, r2) ==
    \/ r1.url # r2.url
    \/ toUpperCase(r1.method) # toUpperCase(r2.method)
    \/ ContextOf(r1) # ContextOf(r2)
    \/ AgentOf(r1) # AgentOf(r2)

\* C4: a credential presented on a request that differs in endpoint, method,
\* context or agent from the request it was issued for is answered 401, the
\* handler is not invoked and nothing is committed
C4_NoReplayAcrossRequests ==
    \A ch \in PaidFor(outcome) :
        (IsRetry /\ Differs(outcome.req, ch.req)) =>
            /\ outcome.status = 401
            /\ outcome.next = 0
            /\ outcome.committed = 0

\* C5: the invoice that pays for an admitted action was quoted for the number
\* of actions the agent had committed in the context when it is admitted
C5_AdmittedAtProgressivePrice ==
    \A ch \in PaidFor(outcome) :
        (IsRetry /\ outcome.next = 1 /\ outcome.committed = 1) =>
            ch.progressive = ProgressiveCost(config, outcome.prior)

\* the caveats other than expires_at pass for the request
OtherCaveatsMatch(macaroon, ctx) ==
    CheckCaveats(SelectSeq(macaroon.caveats, LAMBDA cv : cv[1] # "expires_at"),
                 ctx, 0).valid

\* the challenge minted last
LastMinted == {ch \in issued : ch.preimage = InvoicePreimage(Cardinality(issued))}

\* C15: a minted macaroon carries expires_at = mint time + invoiceTtlSecs; a
\* verification at a clock > expires_at returns 'Macaroon expired', the retry is
\* answered 401 and commits nothing; at every clock <= expires_at the macaroon
\* is valid when its other caveats match
C15_ExpiresAtMintPlusTtl ==
    /\ outcome.status = 402 =>
          \A ch \in LastMinted :
             ch.expiresAt = (outcome.at \div 1000) + invoiceTtlSecs
    /\ \A ch \in PaidFor(outcome) :
          IsRetry =>
             LET m == decodeMacaroon(ch.macaroon).macaroon
                 ctx == VerifyContext(outcome.req)
                 v == verifyMacaroon(ServerSecret, m, ctx, outcome.at)
             IN IF outcome.at > ch.expiresAt * 1000
                THEN /\ v = Invalid("Macaroon expired")
                     /\ outcome.status = 401 /\ outcome.next = 0
                     /\ outcome.committed = 0
                ELSE /\ v.error # "Macaroon expired"
                     /\ OtherCaveatsMatch(m, ctx) => v.valid /\ outcome.next = 1

C15_Witness ==
    /\ IsRetry /\ PaidFor(outcome) # {}
    /\ outcome.at = 601001
    /\ outcome.detail = "Macaroon expired"
    /\ \E a \in DOMAIN agentLastAction : agentLastAction[a] = 601000

\* ------------------------------------------------------------ SpecMacaroon

Secrets == {"other-secret", HexSecret, Utf8Twin}

MacaroonRequests ==
    { Request("/comments", "POST", Str("alice"), Str("t1")),
      Request("/comments", "post", Str("alice"), Str("t1")),
      Request("/comments", "POST", Str("alice"), Str("t2")),
      Request("/comments", "POST", StrEq("alice", "x"), Str("t1")) }

\* expiresAt values, in seconds, not yet passed at the first instant
ExpiryTimes == {601, 1201}

\* changes made to a macaroon after minting
Changes == {"none", "id", "caveat", "order", "signature", "append", "remove", "extend"}

ExtraCaveat == <<"extra", "value">>

Changed(m, change) ==
    CASE change = "id" -> [m EXCEPT !.id = SHA256("x")]
      [] change = "caveat" ->
            [m EXCEPT !.caveats[Len(m.caveats)] = <<"agent", "mallory">>]
      [] change = "order" ->
            [m EXCEPT !.caveats = <<m.caveats[2], m.caveats[1]>> \o SubSeq(@, 3, Len(@))]
      [] change = "signature" ->
            [m EXCEPT !.signature = ChainSig(hmac(SecretKey("forged"), m.id), m.caveats)]
      [] change = "append" -> [m EXCEPT !.caveats = Append(@, ExtraCaveat)]
      [] change = "remove" -> [m EXCEPT !.caveats = SubSeq(@, 1, Len(@) - 1)]
      [] change = "extend" ->
            [m EXCEPT !.caveats = Append(@, ExtraCaveat),
                      !.signature = hmac(m.signature, ExtraCaveat)]
      [] OTHER -> m

\* createMacaroon(secret, paymentHash, {expiresAt, endpoint, method, contextId, agentId})
CreateCall ==
    /\ issued = {}
    /\ \E secret \in Secrets, expiresAt \in ExpiryTimes, req \in MacaroonRequests :
          issued' = { [ secret |-> secret, expiresAt |-> expiresAt, req |-> req,
                        macaroon |-> createMacaroon(secret, SHA256("1"), expiresAt,
                                                    req.url, req.method,
                                                    ContextOf(req), AgentOf(req)) ] }
    /\ UNCHANGED <<config, activity, agentLastAction, now, ret, commitCalls,
                   pending, reqCount, outcome, ioVars>>

\* verifyMacaroon(secret, decodeMacaroon(encodeMacaroon(m)), context) on the
\* minted macaroon after a change
VerifyCall ==
    /\ \E minted \in issued, change \in Changes, secret \in Secrets,
          req \in MacaroonRequests :
          LET presented == Changed(minted.macaroon, change)
              decoded == decodeMacaroon(encodeMacaroon(presented))
          IN ret' = [ op |-> "verifyMacaroon", minted |-> minted, change |-> change,
                      secret |-> secret, req |-> req, at |-> now,
                      presented |-> presented, decoded |-> decoded,
                      result |-> verifyMacaroon(secret, decoded.macaroon,
                                                VerifyContext(req), now) ]
    /\ UNCHANGED <<config, activity, agentLastAction, now, commitCalls, mwVars, ioVars>>

NextMacaroon == CreateCall \/ VerifyCall \/ MainTick

SpecMacaroon == Init /\ [][NextMacaroon]_vars

IsVerify == ret.op = "verifyMacaroon"

\* the verification is of a macaroon other than the minted one, or under a
\* secret other than the minting one
Tampered == ret.change # "none" \/ ret.secret # ret.minted.secret

C17_RoundTripVerifies ==
    ( /\ IsVerify /\ ret.change = "none"
      /\ ret.secret = ret.minted.secret /\ ret.req = ret.minted.req
      /\ ret.at <= ret.minted.expiresAt * 1000 )
    => /\ ~ret.decoded.null
       /\ ret.decoded.macaroon = ret.minted.macaroon
       /\ ret.result = Valid

\* ------------------------------------------------------------ SpecFailOpen

FailOpenRequests ==
    { Request("/comments", "POST", Str("alice"), Str("t1")),
      Request("/comments", "POST", Str("bob"), Str("t1")) }

\* the resolver answers, throws or rejects, or is beaten by the timer
FailOpenRaces ==
    MainTrustRaces \cup {TrustRace("throw", NoField), TrustRace("timeout", NoField)}

FailedRaces == {"throw", "timeout"}

UnauthenticatedArrives ==
    /\ reqCount < MaxRequests
    /\ \E req \in FailOpenRequests : Arrive(req)

TrustRaceEnds == \E race \in FailOpenRaces : TrustResolved(race)

InvoiceFails == \E thrown \in Thrown : InvoiceRejected(thrown)

\* the client pays a challenge and retries the request it was sent for
PaidRetry ==
    /\ reqCount < MaxRequests
    /\ \E ch \in issued : AuthRequest(ch.req, PaidCredential(ch))

NextFailOpen ==
    UnauthenticatedArrives \/ TrustRaceEnds \/ Mint \/ InvoiceFails \/ PaidRetry \/ MainTick

SpecFailOpen == Init /\ [][NextFailOpen]_vars

\* the step in which the request waiting for its invoice ends with no
\* challenge minted: wallet.createInvoice failed
WalletFailedStep ==
    pending.stage = "invoice" /\ pending' = NoPending /\ issued' = issued

\* C18: when wallet.createInvoice fails, no 402 and no 5xx is sent, the error
\* message is recorded in req.tollError, the downstream handler is invoked
\* exactly once, req.tollPaid is not set and no activity is recorded
C18_WalletFailureFailsOpen ==
    [][ WalletFailedStep =>
            /\ outcome'.seq = outcome.seq + 1
            /\ outcome'.req = pending.req
            /\ outcome'.status = 0
            /\ outcome'.tollError
            /\ outcome'.next = 1
            /\ ~outcome'.tollPaid
            /\ activity' = activity /\ agentLastAction' = agentLastAction ]_vars

\* the quote of calculate for the waiting request with no trustScore
UnknownScoreQuote ==
    calculate(config, activity, agentLastAction, now, AgentOf(pending.req),
              ContextOf(pending.req), NoField, QuoteDryRun)

\* the step in which the challenge of a request whose trust race failed is minted
MintAfterFailedRaceStep ==
    pending.stage = "invoice" /\ pending.race \in FailedRaces /\ issued' # issued

TrustThrewStep == pending.stage = "trust" /\ pending'.race = "throw"

\* C20: when the trust resolver errors on an unauthenticated request, the
\* request passes through to the downstream handler with req.tollError set
C20_TrustErrorFailsOpen ==
    [][ TrustThrewStep =>
            /\ outcome'.seq = outcome.seq + 1
            /\ outcome'.next = 1
            /\ outcome'.tollError ]_vars

\* ------------------------------------------------------------ trust.cjs

\* this.cacheTtlMs = opts.cacheTtlMs || 300_000
cacheTtlMs == 300000

\* setTimeout(() => resolve(null), 3000) of the middleware's race
TrustDeadlineMs == 3000

\* this._cache.get(agentId); late records whether the entry was written by an
\* answer that came after its request's timer
NoEntry == [score |-> NoField, fetchedAt |-> NoField, late |-> FALSE]
CacheGet(agentId) == IF agentId \in DOMAIN cache THEN cache[agentId] ELSE NoEntry

\* a cache whose entries never age
FreshAlways(cached, t) == cached # NoEntry

\* cached && Date.now() - cached.fetchedAt < this.cacheTtlMs
Fresh(cached, t) == cached # NoEntry /\ t - cached.fetchedAt < cacheTtlMs

\* what _queryNostr ends in: a score, null (no attestations), or a throw
QueryResult(threw, score) == [threw |-> threw, score |-> score]
QueryResults ==
    {QueryResult(TRUE, NoField), QueryResult(FALSE, NoField), QueryResult(FALSE, 80)}

\* what getScore returns after _queryNostr: lines 66-73
ScoreAfterQuery(result, cached) ==
    IF result.threw THEN cached.score ELSE result.score

\* this._cache.set(agentId, {score, fetchedAt: Date.now()}) of line 68,
\* skipped when _queryNostr threw
CacheAfterQuery(result, q, t) ==
    IF result.threw THEN cache
    ELSE MapSet(cache, q.agent, [score |-> result.score, fetchedAt |-> t, late |-> ~q.waiting])

\* the last instant modelled
TrustTimes == {1000, 4000, 304000, 307000}
LastInstant == 307000

\* an unauthenticated request arrives and trust.getScore(agentId) is called:
\* a fresh cache entry is returned at once, otherwise the network is queried
MaxQueries == 2

GetScoreCalled ==
    /\ reqCount < MaxQueries
    /\ now + TrustDeadlineMs <= LastInstant
    /\ \E req \in FailOpenRequests :
          LET cached == CacheGet(AgentOf(req))
          IN /\ Arrives(req)
             /\ queries' = queries \cup
                   { [ id |-> reqCount, agent |-> AgentOf(req), calledAt |-> now,
                       cached |-> cached,
                       hit |-> Fresh(cached, now), waiting |-> TRUE ] }
             /\ cache' = cache

\* getScore returned the fresh cache entry: the race is won by it
CachedAnswer ==
    \E q \in queries :
       /\ q.hit
       /\ RaceDecided(TrustRace("answer", q.cached.score))
       /\ queries' = queries \ {q}
       /\ cache' = cache

\* _queryNostr ended before the timer of the waiting request
AnswerInTime ==
    \E q \in queries, result \in QueryResults :
       /\ ~q.hit /\ q.waiting
       /\ RaceDecided(TrustRace("answer", ScoreAfterQuery(result, q.cached)))
       /\ cache' = CacheAfterQuery(result, q, now)
       /\ queries' = queries \ {q}

\* the 3000 ms timer wins the race: trustScore is null
TimerFires ==
    \E q \in queries :
       /\ ~q.hit /\ q.waiting
       /\ now >= q.calledAt + TrustDeadlineMs
       /\ RaceDecided(TrustRace("timeout", NoField))
       /\ queries' = (queries \ {q}) \cup {[q EXCEPT !.waiting = FALSE]}
       /\ cache' = cache

\* _queryNostr ended after the timer had won: the race ignores the value,
\* getScore still runs to its end
AnswerLate ==
    \E q \in queries, result \in QueryResults :
       /\ ~q.hit /\ ~q.waiting
       /\ cache' = CacheAfterQuery(result, q, now)
       /\ queries' = queries \ {q}
       /\ UNCHANGED <<config, activity, agentLastAction, now, ret, commitCalls, mwVars,
                      sideVars>>

TrustTick == \E t \in TrustTimes : Tick(t)

NextTrust ==
    \/ GetScoreCalled \/ CachedAnswer \/ AnswerInTime \/ TimerFires \/ AnswerLate
    \/ Mint \/ TrustTick

\* timers that are due fire, promises that are resolved run their
\* continuation, and the clock advances
SpecTrust ==
    /\ Init /\ [][NextTrust]_vars
    /\ WF_vars(TimerFires) /\ WF_vars(CachedAnswer) /\ WF_vars(TrustTick)

\* the quote of the waiting request for a trust score
QuoteFor(score) ==
    calculate(config, activity, agentLastAction, now, AgentOf(pending.req),
              ContextOf(pending.req), score, QuoteDryRun)

\* the waiting request goes on from the trust lookup priced for the score
PricedFor(score) ==
    /\ activity' = activity /\ agentLastAction' = agentLastAction
    /\ IF QuoteFor(score).sats = 0
       THEN outcome'.tollFree /\ outcome'.next = 1 /\ pending' = NoPending
       ELSE /\ pending'.stage = "invoice" /\ pending'.sats = QuoteFor(score).sats
            /\ outcome' = outcome

\* the steps of the race: the timer fires for query q, q is answered while
\* its request waits, q is answered after its timer
TimerStep(q) == q.waiting /\ [q EXCEPT !.waiting = FALSE] \in queries' \ queries
AnswerStep(q) ==
    q.waiting /\ q \notin queries' /\ [q EXCEPT !.waiting = FALSE] \notin queries'
LateStep(q) == ~q.waiting /\ q \notin queries'

\* whichever of answer and timer comes first decides the score, the timer
\* not before its 3000 ms, and a cache entry answers while younger than 5 min
FirstDecides ==
    \A q \in queries :
       /\ q.hit <=> /\ q.cached # NoEntry
                    /\ q.calledAt - q.cached.fetchedAt < 300000
       /\ TimerStep(q) => now >= q.calledAt + 3000 /\ ~q.hit /\ PricedFor(NoField)
       /\ AnswerStep(q) =>
             \/ q.hit /\ PricedFor(q.cached.score) /\ cache' = cache
             \/ ~q.hit /\ PricedFor(q.cached.score) /\ cache' = cache
             \/ /\ ~q.hit
                /\ q.agent \in DOMAIN cache'
                /\ cache'[q.agent].fetchedAt = now /\ ~cache'[q.agent].late
                /\ PricedFor(cache'[q.agent].score)

\* the request that waits for its trust score goes on to the pricing step
AlwaysProceeds == (pending.stage = "trust") ~> (pending.stage # "trust")

\* C21 as stated: the first of answer and timer decides the score, an answer
\* that comes after the timer changes nothing, for this request or a later
\* one, and the request always proceeds to the pricing step
C21_LateAnswerDiscarded ==
    /\ [][ /\ FirstDecides
           /\ \A q \in queries :
                 LateStep(q) => UNCHANGED <<cache, activity, agentLastAction, mwVars>> ]_vars
    /\ AlwaysProceeds

\* C21 amended: the first of answer and timer decides the score of the
\* waiting request and the request always proceeds to the pricing step; an
\* answer that comes after the timer leaves that request, the engine and the
\* responses alone, but a score it carries is stored in the resolver's cache
\* under the time of its arrival, where it answers later requests of the
\* agent for 5 minutes
C21_LateAnswerOnlyCached ==
    /\ [][ /\ FirstDecides
           /\ \A q \in queries :
                 LateStep(q) =>
                    /\ UNCHANGED <<activity, agentLastAction, mwVars>>
                    /\ \/ cache' = cache
                       \/ /\ q.agent \in DOMAIN cache'
                          /\ cache'[q.agent].fetchedAt = now /\ cache'[q.agent].late
                          /\ \A a \in DOMAIN cache' \ {q.agent} :
                                a \in DOMAIN cache /\ cache'[a] = cache[a] ]_vars
    /\ AlwaysProceeds

\* the second request is passed free on a score that came after the timer of
\* the first
C21_Witness ==
    /\ outcome.seq = 2 /\ outcome.tollFree
    /\ CacheGet(AgentOf(outcome.req)).late
    /\ CacheGet(AgentOf(outcome.req)).score = 80

\* ------------------------------------------------------------ SpecConcurrent

\* a request with an L402 header runs from line 64 to the end of
\* _verifyL402, which has no await in it, and is suspended at the await of
\* line 66 with the result
RetryRuns ==
    /\ reqCount < MaxRequests
    /\ \E req \in FailOpenRequests, ch \in issued :
          LET v == verifyL402(config, activity, agentLastAction, now,
                              PaidCredential(ch), req)
          IN /\ activity' = v.activity
             /\ agentLastAction' = v.agentLastAction
             /\ retries' = retries \cup
                   { [ id |-> reqCount, req |-> req, cred |-> PaidCredential(ch),
                       at |-> now, result |-> v.result, prior |-> v.prior,
                       done |-> FALSE ] }
    /\ reqCount' = reqCount + 1
    /\ UNCHANGED <<config, now, ret, commitCalls, pending, issued, outcome, cache, queries,
                   wallet, resolver, client>>

\* a suspended request resumes: lines 67-75
RetryResumes ==
    /\ \E r \in retries :
          /\ ~r.done
          /\ retries' = (retries \ {r}) \cup {[r EXCEPT !.done = TRUE]}
          /\ outcome' =
                IF r.result.valid
                THEN Outcome(outcome.seq + 1, "auth", r.req, r.cred, now, 0, 1, TRUE, FALSE,
                             FALSE, "", 1, r.prior)
                ELSE Outcome(outcome.seq + 1, "auth", r.req, r.cred, now, 401, 0, FALSE,
                             FALSE, FALSE, r.result.error, 0, r.prior)
    /\ UNCHANGED <<config, activity, agentLastAction, now, ret, commitCalls, pending, issued,
                   reqCount, cache, queries, wallet, resolver, client>>

NextConcurrent ==
    UnauthenticatedArrives \/ Trust \/ Mint \/ RetryRuns \/ RetryResumes \/ MainTick

SpecConcurrent == Init /\ [][NextConcurrent]_vars

\* the retries that verified, for an agent and a context
Verified(a, c) ==
    {r \in retries : r.result.valid /\ AgentOf(r.req) = a /\ ContextOf(r.req) = c}

\* the timestamps of the records of an agent
RecordTimes(a) ==
    UNION { {activity[k][i].timestamp : i \in {j \in DOMAIN activity[k] : activity[k][j].agent = a}}
            : k \in DOMAIN activity }

\* C22: with retries suspended and resumed in any interleaving, each commit
\* reads the count and appends as one step: the count of an agent in a
\* context is the number of retries that verified for them, each of them
\* read the count left by those before it, and the last-action table always
\* agrees with the activity lists
C22_CommitsAreAtomic ==
    /\ \A req \in FailOpenRequests :
          LET a == AgentOf(req)
              c == ContextOf(req)
          IN /\ getActivityCount(activity, a, c) = Cardinality(Verified(a, c))
             /\ \A r \in Verified(a, c) :
                   r.prior = Cardinality({o \in Verified(a, c) : o.id < r.id})
             /\ IF RecordTimes(a) = {} THEN a \notin DOMAIN agentLastAction
                ELSE /\ a \in DOMAIN agentLastAction
                     /\ \A t \in RecordTimes(a) : t <= agentLastAction[a]
                     /\ agentLastAction[a] \in RecordTimes(a)
    /\ stats(activity, agentLastAction).totalActions
          = Cardinality({r \in retries : r.result.valid})

\* two verified retries of one agent in one context are suspended together
C22_Witness ==
    \E r1, r2 \in retries :
       /\ r1.id < r2.id /\ r1.req = r2.req
       /\ r1.result.valid /\ r2.result.valid /\ ~r1.done /\ ~r2.done
       /\ getActivityCount(activity, AgentOf(r1.req), ContextOf(r1.req)) = 2

\* ------------------------------------------------------------ SpecChallenge

\* one request, one on another route, and one whose agent contains the
\* caveat separator
ChallengeRequests ==
    { Request("/comments", "POST", Str("alice"), Str("t1")),
      Request("/other", "POST", Str("alice"), Str("t1")),
      Request("/comments", "POST", StrEq("alice", "x"), Str("t1")) }

ChallengeArrives ==
    /\ reqCount < MaxRequests
    /\ \E req \in ChallengeRequests : Arrive(req)

\* a client that paid a challenge presents the pair, with the challenged
\* request or with another one
PaidReplay ==
    /\ reqCount < MaxRequests
    /\ \E ch \in issued, req \in ChallengeRequests : AuthRequest(req, PaidCredential(ch))

NextChallenge == ChallengeArrives \/ Trust \/ Mint \/ InvoiceFailed \/ PaidReplay \/ MainTick

\* challenges and the presentations of paid credentials
SpecChallenge == Init /\ [][NextChallenge]_vars

\* a request with any Authorization header a client can send
CredentialRetry ==
    /\ reqCount < MaxRequests
    /\ \E req \in ChallengeRequests : \E cred \in Credentials(req) : AuthRequest(req, cred)

NextRetry ==
    ChallengeArrives \/ Trust \/ Mint \/ InvoiceFailed \/ CredentialRetry \/ MainTick

\* challenges and the requests that present credentials, paid or forged
SpecRetry == Init /\ [][NextRetry]_vars

\* ------------------------------------------------------------ replay

\* _verifyL402 on a presentation of the challenge's pair with a request, now
Presented(ch, req) ==
    verifyL402(config, activity, agentLastAction, now, PaidCredential(ch), req)

\* the same presentation to a server that has seen no request before
PresentedFirst(ch, req) ==
    verifyL402(config, EmptyMap, EmptyMap, now, PaidCredential(ch), req)

\* the unauthenticated quotes for the request's agent and context
NextQuotes(req) ==
    { calculate(config, activity, agentLastAction, now, AgentOf(req), ContextOf(req),
                score, QuoteDryRun) : score \in MainTrustScores }

Accepted(req) == getActivityCount(activity, AgentOf(req), ContextOf(req))

MintStep == pending.stage = "invoice" /\ issued' # issued

\* C24: a dry-run quote of 0 sats mints nothing and sends no 402: the handler
\* is invoked with tollPaid and tollFree; a quote >= 1 whose mint succeeds
\* sends a 402 and does not invoke the handler
C24_FreePassOrChallenge ==
    [][ /\ pending.stage = "trust" =>
              \A race \in MainTrustRaces :
                 LET r == QuoteStep(race)
                 IN IF QuoteFor(race.score).sats = 0
                    THEN /\ r.pending = NoPending
                         /\ r.outcome.seq = outcome.seq + 1
                         /\ r.outcome.status = 0 /\ r.outcome.next = 1
                         /\ r.outcome.tollPaid /\ r.outcome.tollFree
                         /\ ~r.outcome.tollError
                    ELSE /\ QuoteFor(race.score).sats >= 1
                         /\ r.pending.stage = "invoice"
                         /\ r.pending.sats = QuoteFor(race.score).sats
                         /\ r.outcome = outcome
        /\ (pending.stage = "trust" /\ pending' # pending) => issued' = issued
        /\ MintStep =>
              /\ outcome'.seq = outcome.seq + 1
              /\ outcome'.status = 402 /\ outcome'.next = 0
              /\ ~outcome'.tollPaid /\ ~outcome'.tollFree
              /\ \A ch \in issued' \ issued : ch.amountSats >= 1 ]_vars

\* a request was challenged and a later one passed free
C24_Witness ==
    /\ outcome.kind = "unauth" /\ outcome.tollFree /\ outcome.next = 1
    /\ \E ch \in issued : ch.amountSats >= 1

\* ------------------------------------------------------------ challenge

\* the caveat strings a challenge for a request minted at second T carries
ChallengeCaveats(req, T) ==
    << <<"expires_at", ToString(T)>>,
       <<"endpoint">> \o req.url.s,
       <<"method">> \o req.method.s,
       <<"context">> \o ContextOf(req).s,
       <<"agent">> \o AgentOf(req).s >>

\* C25: the quote is computed before the mint, the invoice is for
\* amountSats = pricing.final >= 1, the body's paymentHash is the mint's and
\* the id of the macaroon, and the macaroon carries in this order the caveats
\* expires_at (mint time + invoiceTtlSecs), endpoint, method, context and
\* agent of the challenged request
C25_ChallengeConsistent ==
    [][ /\ (pending.stage = "trust" /\ pending'.stage = "invoice") =>
              /\ issued' = issued
              /\ \E race \in MainTrustRaces :
                    /\ pending'.sats = QuoteFor(race.score).breakdown.final
                    /\ pending'.sats = QuoteFor(race.score).sats
        /\ MintStep =>
              /\ Cardinality(issued' \ issued) = 1
              /\ \A ch \in issued' \ issued :
                    LET decoded == decodeMacaroon(ch.macaroon)
                        m == decoded.macaroon
                    IN /\ ch.amountSats = pending.sats /\ ch.amountSats >= 1
                       /\ ch.req = pending.req /\ outcome'.req = pending.req
                       /\ outcome'.status = 402
                       /\ ch.paymentHash = SHA256(ch.preimage)
                       /\ ~decoded.null /\ m.id = ch.paymentHash
                       /\ ch.expiresAt = (now \div 1000) + invoiceTtlSecs
                       /\ m.caveats = ChallengeCaveats(pending.req, ch.expiresAt)
                       /\ m.signature
                             = ChainSig(hmac(SecretKey(ServerSecret), m.id), m.caveats) ]_vars

\* a challenge for a request whose agent contains the caveat separator
C25_Witness ==
    /\ outcome.status = 402
    /\ \E ch \in issued :
          /\ ch.req = outcome.req /\ ch.amountSats >= 1
          /\ AgentOf(ch.req) = StrEq("alice", "x")
          /\ Len(decodeMacaroon(ch.macaroon).macaroon.caveats) = 5

\* ------------------------------------------------------------ SpecLog

\* engines whose counts are compared with the log of their commits
LogConfigs == { DEFAULT_PRICING, EngineConfig(10, 50, 3, 2, TRUE, FALSE) }

InitLog ==
    /\ config \in LogConfigs
    /\ now = 1000
    /\ InitEngine
    /\ InitMiddleware

\* engine.reset(); the log starts again, and ret.prior keeps the number of
\* records the call cleared
Reset ==
    LET r == reset(activity, agentLastAction)
    IN /\ activity' = r.activity
       /\ agentLastAction' = r.agentLastAction
       /\ ret' = [NoCall EXCEPT !.op = "reset",
                                !.prior = stats(activity, agentLastAction).totalActions]
       /\ commitCalls' = EmptyMap
       /\ UNCHANGED <<config, now, mwVars, ioVars>>

NextLog == CommitCall \/ DryRunCall \/ Reset \/ ClockTick

SpecLog == InitLog /\ [][NextLog]_vars

\* committing calls logged for exactly (a, c) since the last reset
Logged(a, c) == MapGet(commitCalls, <<a, c>>, 0)

LoggedTotal == SumLen([k \in DOMAIN commitCalls |-> [i \in 1..commitCalls[k] |-> k]],
                      DOMAIN commitCalls)

LoggedContexts == {k[2] : k \in DOMAIN commitCalls}

LoggedAgents == {k[1] : k \in DOMAIN commitCalls}

\* C26: getActivityCount(a, c) is the number of committing calls for exactly
\* (a, c) since the last reset; stats() reports the number of committing
\* calls, of distinct contexts and of distinct agents with a committed action;
\* after reset() all of them are 0 and every quote is that of a new engine
C26_CountsRefineLog ==
    /\ \A a \in Agents, c \in Contexts :
          getActivityCount(activity, a, c) = Logged(a, c)
    /\ stats(activity, agentLastAction)
          = [ contexts |-> Cardinality(LoggedContexts),
              agents |-> Cardinality(LoggedAgents),
              totalActions |-> LoggedTotal ]
    /\ ret.op = "reset" =>
          /\ stats(activity, agentLastAction)
                = [contexts |-> 0, agents |-> 0, totalActions |-> 0]
          /\ \A a \in Agents, c \in Contexts, score \in TrustScores :
                /\ getActivityCount(activity, a, c) = 0
                /\ Quote(activity, agentLastAction, a, c, score)
                      = Quote(EmptyMap, EmptyMap, a, c, score)
                /\ Quote(activity, agentLastAction, a, c, score)[2].progressive
                      = config.baseSats

\* a reset that cleared two committed actions
C26_Witness ==
    /\ ret.op = "reset"
    /\ ret.prior = 2
    /\ activity = EmptyMap /\ agentLastAction = EmptyMap

\* ------------------------------------------------------------ SpecCleanup

\* the default of cleanup's parameter: 24 h
DefaultMaxAgeMs == 86400000

\* activities.filter(a => a.timestamp > cutoff)
Newer(list, cutoff) == SelectSeq(list, LAMBDA a : a.timestamp > cutoff)

\* cleanup(maxAgeMs) at time t: buckets are filtered and the empty ones
\* deleted; last-action entries with ts < cutoff are deleted
cleanup(act, last, t, maxAgeMs) ==
    LET cutoff == t - maxAgeMs
        keptKeys == {key \in DOMAIN act : Len(Newer(act[key], cutoff)) # 0}
        keptAgents == {agent \in DOMAIN last : ~(last[agent] < cutoff)}
    IN [ activity |-> [key \in keptKeys |-> Newer(act[key], cutoff)],
         agentLastAction |-> [agent \in keptAgents |-> last[agent]] ]

\* ages cleanup is called with: none, the cooldown window, the default
MaxAges == {0, 60000, DefaultMaxAgeMs}

InitCleanup ==
    /\ config \in LogConfigs
    /\ now = 1000
    /\ InitEngine
    /\ InitMiddleware

\* engine.cleanup(maxAgeMs); ret keeps the argument
Cleanup ==
    \E maxAgeMs \in MaxAges :
       LET r == cleanup(activity, agentLastAction, now, maxAgeMs)
       IN /\ activity' = r.activity
          /\ agentLastAction' = r.agentLastAction
          /\ ret' = [op |-> "cleanup", maxAgeMs |-> maxAgeMs]
          /\ UNCHANGED <<config, now, commitCalls, mwVars, ioVars>>

\* a committing calculate, while the log of commits is below the bound
CleanupCommit ==
    /\ LoggedTotal < MaxCommits
    /\ \E a \in Agents, c \in Contexts, score \in TrustScores :
          Calculate(a, c, score, FALSE)

NextCleanup == CleanupCommit \/ DryRunCall \/ Cleanup \/ ClockTick

SpecCleanup == InitCleanup /\ [][NextCleanup]_vars

\* the records of a bucket that are not older than the horizon
NotOlder(list, cutoff) == SelectSeq(list, LAMBDA a : ~(a.timestamp < cutoff))

\* the agent has no record in any context
NoRecords(act, a) == \A key \in DOMAIN act : CountAgent(act[key], a) = 0

\* C27: cleanup(maxAgeMs) removes exactly the activity records and the
\* last-action entries older than now - maxAgeMs and keeps every newer one;
\* afterwards no bucket is empty, and an agent whose records were all
\* removed is quoted the first-action price again
C27_CleanupExactHorizon ==
    [][ ret'.op = "cleanup" =>
          LET cutoff == now - ret'.maxAgeMs
          IN /\ \A key \in DOMAIN activity :
                   MapGet(activity', key, <<>>) = NotOlder(activity[key], cutoff)
             /\ \A agent \in DOMAIN agentLastAction :
                   agent \in DOMAIN agentLastAction' <=> ~(agentLastAction[agent] < cutoff)
             /\ \A key \in DOMAIN activity' :
                   /\ key \in DOMAIN activity
                   /\ activity'[key] # <<>>
             /\ \A agent \in DOMAIN agentLastAction' :
                   /\ agent \in DOMAIN agentLastAction
                   /\ agentLastAction'[agent] = agentLastAction[agent]
             /\ \A a \in Agents :
                   (~NoRecords(activity, a) /\ NoRecords(activity', a)) =>
                      \A c \in Contexts, score \in TrustScores :
                         Quote(activity', agentLastAction', a, c, score)
                            = Quote(EmptyMap, EmptyMap, a, c, score) ]_vars

\* ------------------------------------------------------------ SpecAnonymous

\* _extract(req, opts.agentFrom) || req.headers['x-agent-id']
ExtractedAgent(fromValue, header) == OrElse(fromValue, header)

\* _extract(req, opts.contextFrom) || req.params.threadId || req.params.postId
ExtractedContext(fromValue, threadId, postId) == OrElse(OrElse(fromValue, threadId), postId)

\* requests that name no agent and no context: nothing at the configured
\* paths, no X-Agent-Id header and no route parameter, on two routes; and
\* one whose header and parameter are empty strings
Unidentified ==
    { Request("/comments", "POST", ExtractedAgent(Null, Undefined),
              ExtractedContext(Null, Undefined, Undefined)),
      Request("/other", "POST", ExtractedAgent(Null, Undefined),
              ExtractedContext(Null, Undefined, Undefined)),
      Request("/comments", "POST", ExtractedAgent(Null, Str("")),
              ExtractedContext(Null, Str(""), Undefined)) }

\* and one that names its agent in the X-Agent-Id header
AnonymousRequests ==
    Unidentified \cup
    { Request("/comments", "POST", ExtractedAgent(Null, Str("bob")),
              ExtractedContext(Null, Undefined, Undefined)) }

AnonymousArrives ==
    /\ reqCount < MaxRequests
    /\ \E req \in AnonymousRequests : Arrive(req)

\* a client that paid a challenge presents the credential with any request
AnonymousRetry ==
    /\ reqCount < MaxRequests
    /\ \E ch \in issued, req \in AnonymousRequests : AuthRequest(req, PaidCredential(ch))

NextAnonymous ==
    AnonymousArrives \/ Trust \/ Mint \/ InvoiceFailed \/ AnonymousRetry \/ MainTick

SpecAnonymous == Init /\ [][NextAnonymous]_vars

Anonymous == Str("anonymous")
Default == Str("default")

\* the records of the bucket 'default' made by 'anonymous'
AnonymousActions(act) == CountAgent(MapGet(act, Default, <<>>), Anonymous)

\* C28: a request with no agent identifier and no context is quoted, bound in
\* the macaroon and committed as agent 'anonymous' in context 'default'; all
\* such requests share one progressive bucket, and stats() reports a single
\* agent and a single context for them
C28_AnonymousDefault ==
    [][ /\ ( /\ pending.stage = "trust" /\ pending.req \in Unidentified
             /\ pending'.stage = "invoice" ) =>
              /\ pending'.prior = AnonymousActions(activity)
              /\ pending'.progressive
                    = ProgressiveCost(config, AnonymousActions(activity))
        /\ \A ch \in issued' \ issued :
              ch.req \in Unidentified =>
                 LET m == decodeMacaroon(ch.macaroon).macaroon
                 IN /\ Len(m.caveats) = 5
                    /\ m.caveats[4] = <<"context", "default">>
                    /\ m.caveats[5] = <<"agent", "anonymous">>
        /\ ( /\ outcome'.seq # outcome.seq /\ outcome'.kind = "auth"
             /\ outcome'.req \in Unidentified /\ outcome'.committed = 1 ) =>
              /\ activity' = MapSet(activity, Default,
                                    Append(MapGet(activity, Default, <<>>),
                                           [agent |-> Anonymous, timestamp |-> now]))
              /\ agentLastAction' = MapSet(agentLastAction, Anonymous, now)
              /\ AnonymousActions(activity') = AnonymousActions(activity) + 1
        /\ ( /\ stats(activity', agentLastAction').totalActions >= 1
             /\ AnonymousActions(activity') = stats(activity', agentLastAction').totalActions ) =>
              /\ stats(activity', agentLastAction').contexts = 1
              /\ stats(activity', agentLastAction').agents = 1
              /\ DOMAIN activity' = {Default}
              /\ DOMAIN agentLastAction' = {Anonymous} ]_vars

\* a request on one route is quoted after the paid retry of another
\* unidentified request: it is charged as the second action of the bucket
C28_Witness ==
    /\ pending.stage = "invoice" /\ pending.prior = 1
    /\ pending.req = Request("/other", "POST", Undefined, Undefined)
    /\ \E ch \in issued :
          /\ ch.req \in Unidentified /\ ch.req.agentField = Str("")
    /\ stats(activity, agentLastAction) = [contexts |-> 1, agents |-> 1, totalActions |-> 1]

\* ------------------------------------------------------------ wallet.cjs

MaxInvoices == 1
MaxLookups == 3

\* an entry of _invoices; preimage "" stands for a record without one
InvoiceRecord(paid, preimage) == [paid |-> paid, preimage |-> preimage]

\* createInvoice(sats, description) for the payment hash the backend minted:
\* a custom wallet's result is returned as it is (lines 48-50), the NWC
\* result is recorded as pending (lines 61-69)
createInvoice(mode, invoices, hash) ==
    IF mode = "custom" THEN invoices
    ELSE MapSet(invoices, hash, InvoiceRecord(FALSE, ""))

\* what the backend answers to a lookup
BackendAnswers == {"settled", "open", "error"}

\* lookupInvoice once the backend has answered: the value the promise
\* settles with
LookupResult(mode, answer, preimage) ==
    IF answer = "error"
    THEN IF mode = "custom"
         THEN [threw |-> TRUE, paid |-> FALSE, preimage |-> ""]
         ELSE [threw |-> FALSE, paid |-> FALSE, preimage |-> ""]
    ELSE IF answer = "settled"
    THEN [threw |-> FALSE, paid |-> TRUE, preimage |-> preimage]
    ELSE [threw |-> FALSE, paid |-> FALSE, preimage |-> ""]

\* if (paid && record) { record.paid = true; record.preimage = ... }
InvoicesAfterLookup(invoices, hash, result) ==
    IF result.paid /\ hash \in DOMAIN invoices
    THEN [invoices EXCEPT ![hash] = InvoiceRecord(TRUE, result.preimage)]
    ELSE invoices

\* record && record.paid
CachedPaid(invoices, hash) == hash \in DOMAIN invoices /\ invoices[hash].paid

\* the hash of an invoice the backend made for someone else
ForeignHash == SHA256("x")

\* the preimage the backend reveals for a hash
PreimageOf(hash) == hash[2]

MintedHashes == {SHA256(InvoicePreimage(n)) : n \in 1..wallet.minted}

LookupHashes == MintedHashes \cup {ForeignHash}

\* new WalletProvider({custom}) or new WalletProvider({nwcUrl})
InitWallet ==
    /\ config = DEFAULT_PRICING
    /\ now = 1000
    /\ InitEngine
    /\ pending = NoPending /\ issued = {} /\ reqCount = 0 /\ outcome = NoOutcome
    /\ cache = EmptyMap /\ queries = {} /\ retries = {} /\ resolver = "nostr"
    /\ client = NoClient
    /\ wallet \in {NoWallet, [NoWallet EXCEPT !.mode = "nwc"]}

WalletUnchanged ==
    UNCHANGED <<config, activity, agentLastAction, now, ret, commitCalls, mwVars, cache,
                queries, retries, resolver, client>>

\* wallet.createInvoice(sats, description): the backend mints, the adapter
\* returns; nobody knows the hash before the call has returned
WalletCreate ==
    /\ wallet.minted < MaxInvoices
    /\ wallet' = [wallet EXCEPT
                    !.minted = @ + 1,
                    !.invoices = createInvoice(wallet.mode, @,
                                               SHA256(InvoicePreimage(wallet.minted + 1)))]
    /\ WalletUnchanged

\* the payer settles an invoice at the backend
Settle ==
    /\ \E hash \in LookupHashes \ wallet.settled :
          wallet' = [wallet EXCEPT !.settled = @ \cup {hash}]
    /\ WalletUnchanged

\* what a lookup returned, and whether a paid answer for the hash had been
\* returned before the call was made
Returned(id, hash, afterPaid, result, flipped) ==
    [ id |-> id, hash |-> hash, afterPaid |-> afterPaid, threw |-> result.threw,
      paid |-> result.paid, preimage |-> result.preimage, flipped |-> flipped ]

PaidSeenAfter(seen, hash, result) ==
    IF result.paid /\ hash \notin DOMAIN seen
    THEN seen @@ (hash :> result.preimage) ELSE seen

\* wallet.lookupInvoice(paymentHash) up to its await: the answer from the
\* record (lines 79-82), or the call of the backend
LookupCalled ==
    /\ wallet.calls < MaxLookups
    /\ \E hash \in LookupHashes :
          LET id == wallet.calls + 1
              afterPaid == hash \in DOMAIN wallet.paidSeen
          IN IF CachedPaid(wallet.invoices, hash)
             THEN LET result == [threw |-> FALSE, paid |-> TRUE,
                                 preimage |-> wallet.invoices[hash].preimage]
                  IN wallet' = [wallet EXCEPT
                                  !.calls = id,
                                  !.paidSeen = PaidSeenAfter(@, hash, result),
                                  !.returned = Returned(id, hash, afterPaid, result, FALSE)]
             ELSE wallet' = [wallet EXCEPT
                               !.calls = id,
                               !.lookups = @ \cup {[id |-> id, hash |-> hash,
                                                     afterPaid |-> afterPaid,
                                                     answer |-> "none"]}]
    /\ WalletUnchanged

\* the backend answers a lookup from its state, or fails
BackendReplies ==
    /\ \E l \in wallet.lookups :
          /\ l.answer = "none"
          /\ \E answer \in BackendAnswers :
                /\ answer = "settled" => l.hash \in wallet.settled
                /\ answer = "open" => l.hash \notin wallet.settled
                /\ wallet' = [wallet EXCEPT
                             !.lookups = (@ \ {l}) \cup {[l EXCEPT !.answer = answer]}]
    /\ WalletUnchanged

\* the answer arrives and lookupInvoice resumes (lines 85-103)
LookupReturns ==
    /\ \E l \in wallet.lookups :
          /\ l.answer # "none"
          /\ LET result == LookupResult(wallet.mode, l.answer, PreimageOf(l.hash))
                 after == InvoicesAfterLookup(wallet.invoices, l.hash, result)
             IN wallet' = [wallet EXCEPT
                             !.lookups = @ \ {l},
                             !.invoices = after,
                             !.paidSeen = PaidSeenAfter(@, l.hash, result),
                             !.returned = Returned(l.id, l.hash, l.afterPaid, result,
                                                   after # wallet.invoices)]
    /\ WalletUnchanged

NextWallet == WalletCreate \/ Settle \/ LookupCalled \/ BackendReplies \/ LookupReturns

SpecWallet == InitWallet /\ [][NextWallet]_vars

\* a lookup returned in this step
LookupReturned == wallet'.returned.id # wallet.returned.id

\* C29: the paid flag of an invoice changes only from false to true, only
\* when a backend lookup reports settlement, and never back; once
\* lookupInvoice has returned paid for the payment hash of an invoice the
\* adapter created, every later lookupInvoice for that hash returns
\* paid: true with the same preimage
C29_PaidIsFinal ==
    [][ /\ \A hash \in DOMAIN wallet.invoices :
              /\ hash \in DOMAIN wallet'.invoices
              /\ wallet.invoices[hash].paid => wallet'.invoices[hash] = wallet.invoices[hash]
              /\ (~wallet.invoices[hash].paid /\ wallet'.invoices[hash].paid) =>
                    /\ LookupReturned
                    /\ wallet'.returned.hash = hash /\ wallet'.returned.paid
                    /\ \E l \in wallet.lookups :
                          l.id = wallet'.returned.id /\ l.answer = "settled"
        /\ ( /\ LookupReturned /\ wallet'.returned.afterPaid
             /\ wallet'.returned.hash \in MintedHashes ) =>
              /\ ~wallet'.returned.threw
              /\ wallet'.returned.paid
              /\ wallet'.returned.preimage = wallet.paidSeen[wallet'.returned.hash] ]_vars

\* ------------------------------------------------------------ resolvers

\* Math.round(num / den) for num >= 0, den > 0
Round(num, den) == (2 * num + den) \div (2 * den)

\* an attestation event: its author, ATTESTATION_WEIGHTS[type] * 10, and its
\* age Date.now() - created_at * 1000 in half-lives (negative: created_at is
\* in the future)
Attestation(pubkey, weight10, age) == [pubkey |-> pubkey, weight10 |-> weight10, age |-> age]

\* events of attesters already seen are skipped
RECURSIVE FirstPerAttester(_, _)
FirstPerAttester(attestations, seen) ==
    IF attestations = <<>> THEN <<>>
    ELSE IF Head(attestations).pubkey \in seen
    THEN FirstPerAttester(Tail(attestations), seen)
    ELSE <<Head(attestations)>>
         \o FirstPerAttester(Tail(attestations), seen \cup {Head(attestations).pubkey})

\* 4 * Math.pow(0.5, age) for age in -1..2
Decay4(age) == Pow(2, 2 - age)

RECURSIVE WeightedSum40(_)
WeightedSum40(events) ==
    IF events = <<>> THEN 0
    ELSE Head(events).weight10 * Decay4(Head(events).age) + WeightedSum40(Tail(events))

RECURSIVE TotalWeight10(_)
TotalWeight10(events) ==
    IF events = <<>> THEN 0
    ELSE Head(events).weight10 + TotalWeight10(Tail(events))

\* _calculateScore(attestations):
\* Math.round(min(1, n / 5) * (weightedSum / totalWeight) * 100)
calculateScore(attestations) ==
    LET events == FirstPerAttester(attestations, {})
    IN IF TotalWeight10(events) = 0 THEN 0
       ELSE Round(Min(Len(events), 5) * WeightedSum40(events) * 100,
                  5 * 4 * TotalWeight10(events))

\* the end of _queryNostr
queryNostr(attestations) ==
    IF Len(attestations) = 0 THEN NoField ELSE calculateScore(attestations)

\* the same type 'general-trust' from n attesters of one age
RECURSIVE Attesters(_, _)
Attesters(n, age) ==
    IF n = 0 THEN <<>> ELSE Append(Attesters(n - 1, age), Attestation(n, 8, age))

\* what the relays hold about an agent: nothing; two attesters one half-life
\* ago; five attesters now, one of them twice; five attesters whose
\* created_at is one half-life ahead of the clock
AttestationLists ==
    { <<>>, Attesters(2, 1),
      Append(Attesters(5, 0), Attestation(1, 15, 2)),
      Attesters(5, -1) }

\* a value of JSON or of a custom function: a number, a string, or none
JsNum(n) == [t |-> "num", n |-> n]
JsStr(n) == [t |-> "str", n |-> n]
JsNone == [t |-> "undef", n |-> 0]

\* typeof data.score === 'number' ? data.score : null
apiScore(score) == IF score.t = "num" THEN score.n ELSE NoField

\* scores[agentId] ?? null
staticScore(scores, agentId) == MapGet(scores, agentId, NoField)

\* staticResolver({alice: 150})
StaticScores == (Str("alice") :> 150)

\* the data.score of the REST answers
ApiScores == {JsNum(50), JsNum(150), JsStr(90), JsNone}

\* what an operator's resolver function returns
CustomScores == {NoField, 0, 100, 150, -5}

ResolverKinds == {"nostr", "custom", "static", "api"}

\* what trust.getScore(agentId) resolves to at time t, and the cache it leaves
getScore(kind, agentId, t) ==
    IF kind = "custom" THEN {[score |-> v, cache |-> cache] : v \in CustomScores}
    ELSE IF kind = "static"
    THEN {[score |-> staticScore(StaticScores, agentId), cache |-> cache]}
    ELSE IF kind = "api" THEN {[score |-> apiScore(d), cache |-> cache] : d \in ApiScores}
    ELSE IF Fresh(CacheGet(agentId), t)
    THEN {[score |-> CacheGet(agentId).score, cache |-> cache]}
    ELSE { [ score |-> queryNostr(atts),
             cache |-> MapSet(cache, agentId,
                              [score |-> queryNostr(atts), fetchedAt |-> t, late |-> FALSE]) ]
           : atts \in AttestationLists }

\* discourseToll({trust, ...}) with a resolver of one of the four kinds
InitScores ==
    /\ config = DEFAULT_PRICING
    /\ now = 1000
    /\ InitEngine
    /\ pending = NoPending /\ issued = {} /\ reqCount = 0 /\ outcome = NoOutcome
    /\ cache = EmptyMap /\ queries = {} /\ retries = {} /\ wallet = NoWallet
    /\ client = NoClient
    /\ resolver \in ResolverKinds

\* the resolver answers before the timer: lines 82-93, with the dry-run
\* calculate call kept in ret
ResolverAnswers ==
    /\ pending.stage = "trust"
    /\ \E g \in getScore(resolver, AgentOf(pending.req), now) :
          LET race == TrustRace("answer", g.score)
              req == pending.req
              r == calculate(config, activity, agentLastAction, now, AgentOf(req),
                             ContextOf(req), RaceScore(race), QuoteDryRun)
          IN /\ activity' = QuoteStep(race).activity
             /\ agentLastAction' = QuoteStep(race).agentLastAction
             /\ pending' = QuoteStep(race).pending
             /\ outcome' = QuoteStep(race).outcome
             /\ ret' = CallRecord(AgentOf(req), ContextOf(req), RaceScore(race),
                                  QuoteDryRun, r)
             /\ cache' = g.cache
    /\ UNCHANGED <<config, now, commitCalls, issued, reqCount, queries, sideVars>>

NextScores ==
    UnauthenticatedArrives \/ ResolverAnswers \/ Mint \/ InvoiceFailed \/ PaidRetry \/ MainTick

SpecScores == InitScores /\ [][NextScores]_vars

\* C30: every trust score that reaches the pricing engine from a resolver is
\* an integer in [0,100] or unknown
C30_ScoreInRangeOrUnknown ==
    IsCall => ret.trustScore = NoField \/ ret.trustScore \in 0..100

(***************************************************************************)
(* Construction: discourseToll(config) and the WalletProvider constructor. *)
(* A configuration carries secret and nwcUrl as JS values, wallet as       *)
(* undefined or an object with createInvoice and lookupInvoice, the        *)
(* invoiceTtlSecs number (NoField when absent) and, from the environment,  *)
(* whether require('@getalby/sdk') succeeded.                              *)
(***************************************************************************)
WalletObject == [t |-> "obj", s |-> <<"createInvoice", "lookupInvoice">>]

ToBoolean(v) == v.t = "obj" \/ Truthy(v)

ToolConfigs ==
    [ secret : {Undefined, Str(""), Str("s3cret")},
      nwcUrl : {Undefined, Str("nostr+walletconnect://w")},
      wallet : {Undefined, WalletObject},
      invoiceTtlSecs : {NoField, 0, 300},
      sdk : BOOLEAN ]

NoThrow == ""

WalletProviderNew(opts, sdk) ==
    IF ToBoolean(opts.custom)
    THEN [thrown |-> NoThrow, mode |-> "custom"]
    ELSE IF ToBoolean(opts.nwcUrl)
    THEN IF ~sdk
         THEN [thrown |-> "NWC requires @getalby/sdk. Install it: npm i @getalby/sdk",
               mode |-> "none"]
         ELSE [thrown |-> NoThrow, mode |-> "nwc"]
    ELSE [thrown |-> "WalletProvider needs either nwcUrl or custom wallet functions",
          mode |-> "none"]

discourseToll(cfg) ==
    IF ~ToBoolean(cfg.secret)
    THEN [thrown |-> "discourse-toll: secret is required", mode |-> "none",
          ttl |-> NoField, exposes |-> {}]
    ELSE IF ~ToBoolean(cfg.nwcUrl) /\ ~ToBoolean(cfg.wallet)
    THEN [thrown |-> "discourse-toll: nwcUrl or wallet is required", mode |-> "none",
          ttl |-> NoField, exposes |-> {}]
    ELSE LET opts == IF ToBoolean(cfg.nwcUrl)
                     THEN [nwcUrl |-> cfg.nwcUrl, custom |-> Undefined]
                     ELSE [nwcUrl |-> Undefined, custom |-> cfg.wallet]
             w == WalletProviderNew(opts, cfg.sdk)
         IN  IF w.thrown # NoThrow
             THEN [thrown |-> w.thrown, mode |-> "none", ttl |-> NoField, exposes |-> {}]
             ELSE [thrown |-> NoThrow, mode |-> w.mode,
                   ttl |-> IF cfg.invoiceTtlSecs \in {NoField, 0}
                           THEN invoiceTtlSecs ELSE cfg.invoiceTtlSecs,
                   exposes |-> {"pricing", "trust", "wallet", "stats", "cleanup", "close"}]

InitConstruct ==
    /\ config = DEFAULT_PRICING
    /\ now = 1000
    /\ activity = EmptyMap /\ agentLastAction = EmptyMap /\ commitCalls = EmptyMap
    /\ InitMiddleware
    /\ \E cfg \in ToolConfigs : ret = [op |-> "config", cfg |-> cfg]

Construct ==
    /\ ret.op = "config"
    /\ LET made == discourseToll(ret.cfg)
       IN  /\ ret' = [op |-> "discourseToll", cfg |-> ret.cfg, made |-> made]
           /\ wallet' = IF made.thrown = NoThrow
                        THEN [NoWallet EXCEPT !.mode = made.mode] ELSE wallet
    /\ UNCHANGED <<config, engineVars, now, commitCalls, mwVars, cache, queries,
                   retries, resolver, client>>

FactoryStats ==
    /\ ret.op = "discourseToll"
    /\ ret.made.thrown = NoThrow
    /\ "stats" \in ret.made.exposes
    /\ ret' = [op |-> "stats", cfg |-> ret.cfg, made |-> ret.made,
               pricing |-> stats(activity, agentLastAction),
               total |-> Cardinality(DOMAIN wallet.invoices)]
    /\ UNCHANGED <<config, engineVars, now, commitCalls, mwVars, ioVars>>

NextConstruct == Construct \/ FactoryStats

SpecConstruct == InitConstruct /\ [][NextConstruct]_vars

Constructed == ret.op = "discourseToll"

BothWallets(cfg) == ToBoolean(cfg.nwcUrl) /\ ToBoolean(cfg.wallet)

NoWalletGiven(cfg) == ~ToBoolean(cfg.nwcUrl) /\ ~ToBoolean(cfg.wallet)

(* C31: construction throws, and yields no middleware, when secret is      *)
(* missing, when neither nwcUrl nor wallet is given and when both are      *)
(* given; with a secret and exactly one usable wallet backend it returns a *)
(* middleware factory that exposes stats and cleanup.                      *)
C31_ConfigErrorsFatal ==
    Constructed =>
        /\ (~ToBoolean(ret.cfg.secret) => ret.made.thrown # NoThrow)
        /\ (NoWalletGiven(ret.cfg) => ret.made.thrown # NoThrow)
        /\ (BothWallets(ret.cfg) => ret.made.thrown # NoThrow)
        /\ (ret.made.thrown # NoThrow => ret.made.exposes = {})
        /\ ( ( /\ ToBoolean(ret.cfg.secret)
               /\ ~NoWalletGiven(ret.cfg) /\ ~BothWallets(ret.cfg)
               /\ (ToBoolean(ret.cfg.nwcUrl) => ret.cfg.sdk) )
             => /\ ret.made.thrown = NoThrow
                /\ {"stats", "cleanup"} \subseteq ret.made.exposes )

(***************************************************************************)
(* The paying client: createDiscourseClient and request().  request()     *)
(* suspends at three awaits (the first HTTP exchange, wallet.payInvoice,   *)
(* the retried exchange); each call record keeps the locals that live      *)
(* across them.  The server is the environment: it answers 200 or a 402    *)
(* whose amountSats is the amount of its invoice.  client.paid is the sum  *)
(* of the invoices the wallet paid with a preimage, per context.           *)
(***************************************************************************)
MaxClientCalls == 2

DefaultMaxSats == 100

DefaultMaxSatsPerContext == 500

ClientOpts ==
    { [maxSats |-> 3, maxSatsPerContext |-> 5],
      [maxSats |-> NoField, maxSatsPerContext |-> NoField] }

createDiscourseClient(opts) ==
    [ NoClient EXCEPT
        !.maxSats = IF opts.maxSats \in {NoField, 0} THEN DefaultMaxSats ELSE opts.maxSats,
        !.maxSatsPerContext = IF opts.maxSatsPerContext \in {NoField, 0}
                              THEN DefaultMaxSatsPerContext ELSE opts.maxSatsPerContext ]

TollAmounts == {2, 3, 4}

TollContexts == {Str("t1"), Str("t2"), Undefined}

\* tollContextId || 'unknown'
ClientContext(tollContextId) ==
    IF ToBoolean(tollContextId) THEN tollContextId ELSE Str("unknown")

ClientCall(id, pc, contextId, amountSats, spent, result) ==
    [ id |-> id, pc |-> pc, contextId |-> contextId, amountSats |-> amountSats,
      spent |-> spent, result |-> result ]

InitClient ==
    /\ config = DEFAULT_PRICING
    /\ now = 1000
    /\ InitEngine
    /\ pending = NoPending /\ issued = {} /\ reqCount = 0 /\ outcome = NoOutcome
    /\ cache = EmptyMap /\ queries = {} /\ retries = {} /\ wallet = NoWallet
    /\ resolver = "nostr"
    /\ \E opts \in ClientOpts : client = createDiscourseClient(opts)

ClientUnchanged ==
    UNCHANGED <<config, engineVars, now, ret, commitCalls, mwVars, cache, queries, retries,
                wallet, resolver>>

\* request() up to the first await: lines 54-59
ClientRequest ==
    /\ client.started < MaxClientCalls
    /\ client' = [client EXCEPT
                    !.started = @ + 1,
                    !.calls = @ \cup {ClientCall(client.started + 1, "res1", Null, 0, 0,
                                                 "")}]
    /\ ClientUnchanged

\* the first response arrives: lines 61-91, up to await wallet.payInvoice
ClientResponse ==
    /\ \E c \in client.calls :
          /\ c.pc = "res1"
          /\ \/ client' = [client EXCEPT !.calls = (@ \ {c}) \cup
                              {[c EXCEPT !.pc = "done", !.result = "unpaid"]}]
             \/ \E amountSats \in TollAmounts, tollContextId \in TollContexts :
                   LET contextId == ClientContext(tollContextId)
                       spent == MapGet(client.contextSpend, contextId, 0)
                       next ==
                           IF amountSats > client.maxSats
                           THEN [c EXCEPT !.pc = "done", !.result = "Toll too expensive"]
                           ELSE IF spent + amountSats > client.maxSatsPerContext
                           THEN [c EXCEPT !.pc = "done",
                                          !.result = "Context budget exceeded"]
                           ELSE ClientCall(c.id, "paying", contextId, amountSats, spent, "")
                   IN  client' = [client EXCEPT !.calls = (@ \ {c}) \cup {next}]
    /\ ClientUnchanged

PayOutcomes == {"preimage", "no preimage", "rejected"}

\* wallet.payInvoice settles: lines 91-106, up to the second await
ClientPaid ==
    /\ \E c \in client.calls, how \in PayOutcomes :
          /\ c.pc = "paying"
          /\ client' =
               IF how = "rejected"
               THEN [client EXCEPT !.calls = (@ \ {c}) \cup
                        {[c EXCEPT !.pc = "done", !.result = "payInvoice rejected"]}]
               ELSE IF how = "no preimage"
               THEN [client EXCEPT
                        !.unproven = MapSet(@, c.contextId,
                                            MapGet(@, c.contextId, 0) + c.amountSats),
                        !.calls = (@ \ {c}) \cup
                            {[c EXCEPT !.pc = "done",
                                       !.result = "Payment succeeded but no preimage returned"]}]
               ELSE [client EXCEPT
                        !.paid = MapSet(@, c.contextId,
                                        MapGet(@, c.contextId, 0) + c.amountSats),
                        !.contextSpend = MapSet(@, c.contextId, c.spent + c.amountSats),
                        !.calls = (@ \ {c}) \cup {[c EXCEPT !.pc = "res2"]}]
    /\ ClientUnchanged

\* the retried exchange returns: lines 107-108
ClientReturns ==
    /\ \E c \in client.calls :
          /\ c.pc = "res2"
          /\ client' = [client EXCEPT !.calls = (@ \ {c}) \cup
                           {[c EXCEPT !.pc = "done", !.result = "paid"]}]
    /\ ClientUnchanged

NextClient == ClientRequest \/ ClientResponse \/ ClientPaid \/ ClientReturns

SpecClient == InitClient /\ [][NextClient]_vars

\* stats(): lines 134-142
clientStats(c) ==
    [ contexts |-> c.contextSpend,
      maxSats |-> c.maxSats, maxSatsPerContext |-> c.maxSatsPerContext ]

(* C32: in every context the sats the client has paid never exceed        *)
(* maxSatsPerContext, and stats().contexts[ctx] is the amount paid there.  *)
C32_ContextBudget ==
    \A ctx \in DOMAIN client.paid :
        /\ client.paid[ctx] <= client.maxSatsPerContext
        /\ MapGet(clientStats(client).contexts, ctx, 0) = client.paid[ctx]

(***************************************************************************)
(* WalletProvider.createInvoice against its backend.  The backend's       *)
(* answer to a creation is an error or a result with the fields invoice,   *)
(* payment_hash and paymentHash; an absent hash field is <<>>.  The        *)
(* backend is honest: a hash field it sends is the SHA-256 of the          *)
(* invoice's preimage.  An injected wallet answers in the documented       *)
(* shape { invoice, paymentHash }; the NWC backend may send either field,  *)
(* both or none.  wallet.creating holds the calls suspended at the await,  *)
(* wallet.created what each call settled with.                             *)
(***************************************************************************)
NoHash == <<>>

Bolt11(n) == "lnbc" \o ToString(n)

MakeInvoiceResult(n, snake, camel) ==
    [ invoice |-> Bolt11(n),
      payment_hash |-> IF snake THEN SHA256(InvoicePreimage(n)) ELSE NoHash,
      paymentHash |-> IF camel THEN SHA256(InvoicePreimage(n)) ELSE NoHash ]

BackendResults(mode, n) ==
    IF mode = "custom"
    THEN {MakeInvoiceResult(n, FALSE, TRUE)}
    ELSE {MakeInvoiceResult(n, snake, camel) : snake \in BOOLEAN, camel \in BOOLEAN}

\* _extractPaymentHash(invoice): the digest of the invoice string
extractPaymentHash(invoice) == SHA256(invoice)

\* result.payment_hash || result.paymentHash || this._extractPaymentHash(result.invoice)
PaymentHashOf(result) ==
    IF result.payment_hash # NoHash THEN result.payment_hash
    ELSE IF result.paymentHash # NoHash THEN result.paymentHash
    ELSE extractPaymentHash(result.invoice)

\* what createInvoice settles with once the backend has answered
CreateResult(mode, answer) ==
    IF answer.failed
    THEN [threw |-> TRUE, invoice |-> "", paymentHash |-> NoHash]
    ELSE IF mode = "custom"
    THEN [threw |-> FALSE, invoice |-> answer.result.invoice,
          paymentHash |-> answer.result.paymentHash]
    ELSE [threw |-> FALSE, invoice |-> answer.result.invoice,
          paymentHash |-> PaymentHashOf(answer.result)]

\* this._invoices after createInvoice: only the NWC path records (61-69)
InvoicesAfterCreate(mode, invoices, answer) ==
    IF answer.failed THEN invoices
    ELSE createInvoice(mode, invoices, CreateResult(mode, answer).paymentHash)

\* stats(): lines 132-139
walletStats(invoices) ==
    [ paid |-> Cardinality({h \in DOMAIN invoices : invoices[h].paid}),
      pending |-> Cardinality({h \in DOMAIN invoices : ~invoices[h].paid}),
      total |-> Cardinality(DOMAIN invoices) ]

BackendWallet(mode) ==
    [NoWallet EXCEPT !.mode = mode] @@ [creating |-> {}, created |-> <<>>]

InitBackend ==
    /\ config = DEFAULT_PRICING
    /\ now = 1000
    /\ InitEngine
    /\ pending = NoPending /\ issued = {} /\ reqCount = 0 /\ outcome = NoOutcome
    /\ cache = EmptyMap /\ queries = {} /\ retries = {} /\ resolver = "nostr"
    /\ client = NoClient
    /\ \E mode \in {"custom", "nwc"} : wallet = BackendWallet(mode)

NoAnswer == [failed |-> FALSE, result |-> MakeInvoiceResult(0, FALSE, FALSE)]

\* createInvoice(sats, description) up to the call of the backend: 48-56
CreateCalled ==
    /\ Len(wallet.created) + Cardinality(wallet.creating) < MaxInvoices
    /\ wallet' = [wallet EXCEPT
                    !.creating = @ \cup {[id |-> Len(wallet.created) + Cardinality(@) + 1,
                                          answered |-> FALSE, n |-> 0,
                                          answer |-> NoAnswer]}]
    /\ WalletUnchanged

\* the backend makes the invoice and answers, or fails
BackendMints ==
    /\ \E c \in wallet.creating :
          /\ ~c.answered
          /\ \/ wallet' = [wallet EXCEPT
                             !.creating = (@ \ {c}) \cup
                                 {[c EXCEPT !.answered = TRUE,
                                            !.answer = [NoAnswer EXCEPT !.failed = TRUE]]}]
             \/ \E result \in BackendResults(wallet.mode, wallet.minted + 1) :
                   wallet' = [wallet EXCEPT
                                !.minted = @ + 1,
                                !.creating = (@ \ {c}) \cup
                                    {[c EXCEPT !.answered = TRUE,
                                               !.n = wallet.minted + 1,
                                               !.answer = [failed |-> FALSE,
                                                           result |-> result]]}]
    /\ WalletUnchanged

\* the answer arrives and createInvoice settles: lines 49 and 58-70
CreateReturns ==
    /\ \E c \in wallet.creating :
          /\ c.answered
          /\ wallet' = [wallet EXCEPT
                          !.creating = @ \ {c},
                          !.invoices = InvoicesAfterCreate(wallet.mode, @, c.answer),
                          !.created = Append(@, [failed |-> c.answer.failed,
                                                 minted |-> c.n]
                                                @@ CreateResult(wallet.mode, c.answer))]
    /\ WalletUnchanged

NextBackend ==
    \/ CreateCalled \/ BackendMints \/ CreateReturns
    \/ Settle \/ LookupCalled \/ BackendReplies \/ LookupReturns

SpecBackend == InitBackend /\ [][NextBackend]_vars

\* the invoices createInvoice has handed to its caller
Issued == {i \in 1..Len(wallet.created) : ~wallet.created[i].threw}

(* C33: every paymentHash returned by createInvoice is the SHA-256 of the  *)
(* invoice's preimage, so the payer's preimage passes verifyPreimage.      *)
C33_HashOfPreimage ==
    \A i \in Issued :
        verifyPreimage(InvoicePreimage(wallet.created[i].minted),
                       wallet.created[i].paymentHash)

(* C34: every invoice issued through createInvoice, by either kind of      *)
(* wallet, is recorded in _invoices under its paymentHash: stats().total   *)
(* is the number of invoices issued, stats().paid + stats().pending is     *)
(* stats().total.                                                         *)
C34_IssuedAreRecorded ==
    /\ walletStats(wallet.invoices).total = Cardinality(Issued)
    /\ walletStats(wallet.invoices).paid + walletStats(wallet.invoices).pending
           = walletStats(wallet.invoices).total
    /\ \A i \in Issued : wallet.created[i].paymentHash \in DOMAIN wallet.invoices

\* a creation or a lookup for which the backend failed settles in this step
FailedCreateSettles ==
    \E c \in wallet.creating : c.answered /\ c.answer.failed /\ c \notin wallet'.creating

FailedLookupSettles ==
    \E l \in wallet.lookups : l.answer = "error" /\ l \notin wallet'.lookups

(* C35: a backend failure during createInvoice or lookupInvoice settles    *)
(* the adapter call with an error, for both kinds of wallet; it is never   *)
(* turned into a normal result such as { paid: false }.                    *)
C35_BackendErrorsPropagate ==
    [][ /\ FailedCreateSettles => wallet'.created[Len(wallet'.created)].threw
        /\ FailedLookupSettles => wallet'.returned.threw ]_vars

(***************************************************************************)
(* TrustResolver.getScore over the relays (no customResolver).  A call     *)
(* that finds no fresh entry runs _queryNostr: the relays are tried in     *)
(* order, a relay that cannot be connected is skipped by the catch of      *)
(* lines 115-117, the first one that connects supplies the attestations.   *)
(* ret keeps the last getScore call: what it found in the cache, whether   *)
(* it queried, whether any relay was reached, the score it resolved with   *)
(* and the cache entry as it was just before the call settled.             *)
(***************************************************************************)
RelayCount == 3

\* which of this.relays can be connected
Reachabilities == [1..RelayCount -> BOOLEAN]

\* the for loop of lines 83-118: the attestations collected
RECURSIVE Collected(_, _, _)
Collected(i, reach, atts) ==
    IF i > RelayCount THEN <<>>
    ELSE IF reach[i] THEN atts
    ELSE Collected(i + 1, reach, atts)

\* _queryNostr(pubkey): it returns for every reachability, it never throws
queryRelays(reach, atts) == QueryResult(FALSE, queryNostr(Collected(1, reach, atts)))

RelayAttestations == {<<>>, Attesters(2, 1), Attesters(5, 0)}

ScoreReturn(q, t, queried, reached, score) ==
    [ op |-> "getScore", id |-> q.id, agentId |-> q.agent, cached |-> q.cached,
      fresh |-> q.hit, calledAt |-> q.calledAt, at |-> t, queried |-> queried,
      reached |-> reached, score |-> score, before |-> CacheGet(q.agent) ]

InitRelays ==
    /\ config = DEFAULT_PRICING
    /\ now = 1000
    /\ InitEngine
    /\ InitMiddleware

RelaysUnchanged ==
    UNCHANGED <<config, engineVars, now, commitCalls, pending, issued, outcome, sideVars>>

\* getScore(agentId) up to its return from the cache (lines 60-63) or to the
\* await of line 67
ScoreCalled ==
    /\ reqCount < MaxQueries
    /\ \E agentId \in Agents :
          LET cached == CacheGet(agentId)
              q == [ id |-> reqCount + 1, agent |-> agentId, calledAt |-> now,
                     cached |-> cached, hit |-> Fresh(cached, now), waiting |-> TRUE ]
          IN /\ reqCount' = reqCount + 1
             /\ IF q.hit
                THEN /\ ret' = ScoreReturn(q, now, FALSE, FALSE, cached.score)
                     /\ queries' = queries
                ELSE /\ ret' = ret
                     /\ queries' = queries \cup {q}
             /\ cache' = cache
    /\ RelaysUnchanged

\* _queryNostr settles and getScore resumes: lines 67-73
RelaysAnswer ==
    /\ \E q \in queries, reach \in Reachabilities, atts \in RelayAttestations :
          LET result == queryRelays(reach, atts)
          IN /\ cache' = CacheAfterQuery(result, q, now)
             /\ ret' = ScoreReturn(q, now, TRUE, \E i \in 1..RelayCount : reach[i],
                                   ScoreAfterQuery(result, q.cached))
             /\ queries' = queries \ {q}
    /\ reqCount' = reqCount
    /\ RelaysUnchanged

NextRelays == ScoreCalled \/ RelaysAnswer \/ TrustTick

SpecRelays == InitRelays /\ [][NextRelays]_vars

ScoreReturned == ret.op = "getScore"

(* C36: a score fetched less than cacheTtlMs ago is returned from the      *)
(* cache without a query; an older or missing one makes getScore query     *)
(* the relays; when no relay can be reached, a previously cached score,    *)
(* stale or not, is returned and its cache entry is left as it was.        *)
C36_StaleOnFailure ==
    ScoreReturned =>
        /\ ( ( /\ ret.cached # NoEntry
               /\ ret.calledAt - ret.cached.fetchedAt < cacheTtlMs )
             => ~ret.queried /\ ret.score = ret.cached.score )
        /\ ( ( \/ ret.cached = NoEntry
               \/ ret.calledAt - ret.cached.fetchedAt >= cacheTtlMs )
             => ret.queried )
        /\ ( ( /\ ret.queried /\ ~ret.reached
               /\ ret.cached # NoEntry /\ ret.cached.score # NoField )
             => /\ ret.score = ret.cached.score
                /\ CacheGet(ret.agentId) = ret.before )

(***************************************************************************)
(* The order of the checks of an L402 retry.  One request is challenged;   *)
(* retries present its macaroon as minted or changed, with the invoice's   *)
(* preimage or another, with one colon or two, on the challenged request   *)
(* or on requests that differ from it in some or all parts, before and     *)
(* after expiry: credentials that fail several checks at once.             *)
(***************************************************************************)
OrderRequests ==
    { Request("/comments", "POST", Str("alice"), Str("t1")),
      Request("/other", "POST", Str("alice"), Str("t1")),
      Request("/other", "GET", Str("bob"), Str("t2")) }

OrderChanges == {"none", "id", "caveat", "order"}

\* <macaroon>:<preimage>, and the same with a second colon
OrderCredentials(ch) ==
    { [ parts |-> parts,
        token |-> token,
        preimage |-> preimage ] :
      parts \in {2, 3},
      token \in {Garbage} \cup
                { encodeMacaroon(Changed(decodeMacaroon(ch.macaroon).macaroon, change)) :
                  change \in OrderChanges },
      preimage \in {ch.preimage, "x"} }

OrderArrives ==
    /\ reqCount < MaxRequests
    /\ issued = {}
    /\ Arrive(Request("/comments", "POST", Str("alice"), Str("t1")))

OrderedRetry ==
    /\ reqCount < MaxRequests
    /\ \E ch \in issued, req \in OrderRequests :
          \E cred \in OrderCredentials(ch) : AuthRequest(req, cred)

NextOrder == OrderArrives \/ Trust \/ Mint \/ OrderedRetry \/ MainTick

SpecOrder == Init /\ [][NextOrder]_vars

\* the checks of a retry in the stated order, each taken by itself: whether
\* it fails for the credential, and the reason it gives
FixedChecks(cred, req, t) ==
    LET m == decodeMacaroon(cred.token).macaroon
    IN << [ fails |-> cred.parts # 2, reason |-> "Invalid L402 format" ],
          [ fails |-> decodeMacaroon(cred.token).null,
            reason |-> "Invalid macaroon encoding" ],
          [ fails |-> SHA256(cred.preimage) # m.id,
            reason |-> "Preimage does not match payment hash" ],
          [ fails |-> ChainSig(hmac(SecretKey(ServerSecret), m.id), m.caveats)
                          # m.signature,
            reason |-> "Invalid signature" ] >>

CaveatChecks(cred, req, t) ==
    LET m == decodeMacaroon(cred.token).macaroon
    IN [ i \in 1..Len(m.caveats) |->
           [ fails |-> ~CheckCaveat(m.caveats[i], VerifyContext(req), t).valid,
             reason |-> CheckCaveat(m.caveats[i], VerifyContext(req), t).error ] ]

OrderedChecks(o) == FixedChecks(o.cred, o.req, o.at) \o CaveatChecks(o.cred, o.req, o.at)

FailingIn(checks) == {i \in DOMAIN checks : checks[i].fails}

Failing(o) == FailingIn(OrderedChecks(o))

FirstIn(failing) == CHOOSE i \in failing : \A j \in failing : i <= j

(* C37: a rejected L402 retry reports the reason of the first check that   *)
(* fails in the order format, decoding, preimage, signature, caveats in    *)
(* stored order; a retry for which some check fails is rejected; the       *)
(* rejection commits nothing and does not invoke the handler.              *)
C37_FirstFailureReported ==
    IsRetry =>
        LET checks == OrderedChecks(outcome)
            failing == FailingIn(checks)
        IN /\ failing # {} <=> outcome.status = 401
           /\ outcome.status = 401 =>
                 /\ outcome.detail = checks[FirstIn(failing)].reason
                 /\ outcome.committed = 0
                 /\ outcome.next = 0 /\ ~outcome.tollPaid

\* a retry rejected for its signature whose preimage was right and whose
\* caveats would have failed as well
C37_Witness ==
    /\ IsRetry /\ outcome.status = 401
    /\ outcome.detail = "Invalid signature"
    /\ \E i \in Failing(outcome) : i > 5
    /\ Cardinality(Failing(outcome)) >= 3

\* ------------------------------------------------------------ outcomes

\* the request that ended last
Ended == outcome.seq > 0

HandlerOnly == outcome.next = 1 /\ outcome.status = 0

Rejected401 == outcome.next = 0 /\ outcome.status = 401

Challenged402 == outcome.next = 0 /\ outcome.status = 402

(* C38: every invocation of the middleware ends in exactly one of: the     *)
(* handler invoked once and no response sent, a 401, a 402; in particular  *)
(* an invocation whose wallet call failed does not end with neither a      *)
(* response nor the handler.                                               *)
C38_ExactlyOneOutcome ==
    Ended => HandlerOnly \/ Rejected401 \/ Challenged402

\* (i) admitted on a credential that passed the preimage and macaroon checks
AdmittedPaid ==
    /\ outcome.kind = "auth" /\ outcome.tollPaid /\ ~outcome.tollFree
    /\ ~outcome.tollError
    /\ PassesPreimageAndMacaroon(outcome)

\* (ii) admitted free after a zero quote
AdmittedFree ==
    /\ outcome.kind = "unauth" /\ outcome.tollPaid /\ outcome.tollFree
    /\ ~outcome.tollError

\* (iii) passed through after an internal error, flagged and unpaid
AdmittedOnError == outcome.tollError /\ ~outcome.tollPaid /\ ~outcome.tollFree

(* C39: whenever the handler is invoked, the request carries exactly one   *)
(* of (i) tollPaid with the hash of a verified macaroon, (ii) tollPaid     *)
(* and tollFree after a zero quote, (iii) tollError without tollPaid; and  *)
(* tollPaid is set only in cases (i) and (ii).                             *)
C39_HandlerSeesOneMark ==
    /\ (Ended /\ outcome.next >= 1) =>
          AdmittedPaid \/ AdmittedFree \/ AdmittedOnError
    /\ (Ended /\ outcome.tollPaid) => AdmittedPaid \/ AdmittedFree

\* ------------------------------------------------------------ SpecKeys

\* context identifiers as a route hands them to the engine: strings, and the
\* number 42 of a JSON body next to the string '42'
KeyContexts == {Str("t1"), Str("42"), Num(42)}

KeyCommit ==
    /\ stats(activity, agentLastAction).totalActions < MaxCommits
    /\ \E a \in Agents, c \in KeyContexts, score \in TrustScores :
          Calculate(a, c, score, FALSE)

KeyDryRun ==
    \E a \in Agents, c \in KeyContexts, score \in TrustScores :
       Calculate(a, c, score, TRUE)

NextKeys == KeyCommit \/ KeyDryRun \/ ClockTick

SpecKeys == Init /\ [][NextKeys]_vars

(* C40: for every agent and every context identifier, getActivityCount     *)
(* equals breakdown.priorActionsInContext of a dry-run calculate for the   *)
(* same agent and context.                                                 *)
C40_ReadersAgree ==
    \A a \in Agents, c \in KeyContexts :
        getActivityCount(activity, a, c)
            = calculate(config, activity, agentLastAction, now, a, c, NoField, TRUE)
                  .breakdown.priorActionsInContext

====
